---- MODULE Spec2Model ----
(***************************************************************************)
(* A model of fas2ipa/users.py: the username partitioner and the source    *)
(* fetch filter, the cross-realm conflict detector, the per-user upsert    *)
(* (migrate_user), the run coordinator (_push_users) and the batched       *)
(* group-membership reconciliation.                                        *)
(*                                                                         *)
(* Python strings are modelled as sequences of code points, so that        *)
(* comparison, strip, split, replace and glob matching are computed and    *)
(* not assumed.  None and the empty string are both the empty sequence     *)
(* wherever the code only tests truthiness.                                *)
(***************************************************************************)
EXTENDS Integers, Sequences, FiniteSets, TLC

VARIABLES
    pc,                 \* position of the modelled call
    users_start_at,     \* argument: the resume cursor ("" / None = <<>>)
    restrict_users,     \* argument: the caller's patterns (None / () = <<>>)
    user_patterns,      \* result of _make_user_patterns
    matched_users,      \* pull_from_fas: realm -> list of matched usernames
    fas_users,          \* find_user_conflicts / _push_users: ordered realm -> list of records
    set_order,          \* the iteration order Python's set of realm names has in this process
    users_to_conflicts, \* result of find_user_conflicts
    baseline,           \* the conflicts found for the ordering the input arrived in
    config,             \* self.config: the flags and settings the code reads
    person,             \* migrate_user: the record it was called with (person_orig)
    user_args,          \* migrate_user: the local user_args
    depth,              \* migrate_user: depth of the recursion after re-authentication
    status,             \* migrate_user: the status returned
    caller,             \* who called migrate_user
    ipa_users,          \* target directory: username -> stored fields
    ipa_session,        \* target directory: the session is "valid" or "expired"
    faults,             \* target directory: expiries and hard errors it may still produce
    calls,              \* the calls that reached the target directory, in order
    runs,               \* the completed top-level calls of migrate_user
    conflicts,          \* _push_users: argument, username -> the conflict kinds recorded
    push,               \* _push_users: its locals (counters, deltas, loop position)
    trace,              \* _push_users: what each iteration of the user loop did
    ipa_groups,         \* target directory: group -> its members and member managers
    reconciler,         \* add_users_to_groups / remove_users_from_groups: arguments and locals
    batches             \* the membership batches handled, with what was printed for each

patternVars == <<users_start_at, restrict_users, user_patterns, matched_users>>
conflictVars == <<fas_users, set_order, users_to_conflicts, baseline>>
upsertVars == <<person, user_args, depth, status, caller, runs>>
ipaVars == <<ipa_users, ipa_session, faults, calls>>
pushVars == <<conflicts, push, trace>>
memberVars == <<ipa_groups, reconciler, batches>>
vars == <<pc, patternVars, conflictVars, config, upsertVars, ipaVars, pushVars, memberVars>>

\* the variables a component leaves alone
outsidePatterns == <<conflictVars, config, upsertVars, ipaVars, pushVars, memberVars>>
outsideConflicts == <<patternVars, config, upsertVars, ipaVars, pushVars, memberVars>>
outsideUpsert == <<patternVars, conflictVars, config, pushVars, memberVars>>
outsideMembers == <<patternVars, conflictVars, config, upsertVars, pushVars>>

(***************************************************************************)
(* Bounds of the model.                                                    *)
(***************************************************************************)
MaxNameLen == 2
MaxRestrict == 1

(***************************************************************************)
(* Characters.                                                             *)
(***************************************************************************)
Star == 42
QuestionMark == 63
AtSign == 64
Space == 32
Newline == 10
LetterA == 97
LetterF == 102
ControlDLE == 16

\* the characters usernames of the model are made of: 'B', 'a', 'b', 'c'
NameChars == {66, 97, 98, 99}

RECURSIVE StrOver(_, _)
\* all strings over chars of length <= n
StrOver(chars, n) ==
    IF n = 0 THEN {<<>>}
    ELSE LET shorter == StrOver(chars, n - 1)
         IN shorter \cup {Append(s, c) : s \in {t \in shorter : Len(t) = n - 1}, c \in chars}

Usernames == StrOver(NameChars, MaxNameLen) \ {<<>>}

(***************************************************************************)
(* Python string operations.                                               *)
(***************************************************************************)
\* a < b, Python's comparison of str by code points
StrLt(a, b) ==
    \E i \in 1..(Len(a) + 1) :
        /\ \A j \in 1..(i - 1) : j <= Len(b) /\ a[j] = b[j]
        /\ \/ i = Len(a) + 1 /\ i <= Len(b)
           \/ i <= Len(a) /\ i <= Len(b) /\ a[i] < b[i]

StrGe(a, b) == ~StrLt(a, b)

RECURSIVE StrReplace(_, _, _)
\* s.replace(ch, repl) for a one-character ch
StrReplace(s, ch, repl) ==
    IF s = <<>> THEN <<>>
    ELSE (IF Head(s) = ch THEN repl ELSE <<Head(s)>>) \o StrReplace(Tail(s), ch, repl)

\* c.lower() of an ASCII character
Lower(c) == IF c \in 65..90 THEN c + 32 ELSE c

RECURSIVE fnmatchcase(_, _)
\* fnmatch.fnmatchcase(name, pat) for patterns made of literals, '*' and '?'
fnmatchcase(name, pat) ==
    IF pat = <<>> THEN name = <<>>
    ELSE IF Head(pat) = Star
         THEN \E k \in 0..Len(name) :
                  fnmatchcase(SubSeq(name, k + 1, Len(name)), Tail(pat))
    ELSE IF Head(pat) = QuestionMark
         THEN name # <<>> /\ fnmatchcase(Tail(name), Tail(pat))
    ELSE name # <<>> /\ Head(name) = Head(pat) /\ fnmatchcase(Tail(name), Tail(pat))

RECURSIVE SetToSeq(_)
\* a list holding the elements of S once each, in some fixed order
SetToSeq(S) ==
    IF S = {} THEN <<>>
    ELSE LET x == CHOOSE y \in S : TRUE IN <<x>> \o SetToSeq(S \ {x})

RECURSIVE Flatten(_)
Flatten(ss) == IF ss = <<>> THEN <<>> ELSE Head(ss) \o Flatten(Tail(ss))

Range(s) == {s[i] : i \in 1..Len(s)}

(***************************************************************************)
(* Users._make_user_patterns                                               *)
(***************************************************************************)
\* string.ascii_lowercase
AsciiLowercaseLen == 26
alphabet == [i \in 1..AsciiLowercaseLen |-> LetterA + i - 1]

\* the literal "\u0010ffff" of the source: U+0010 followed by "ffff"
StarReplacement == <<ControlDLE, LetterF, LetterF, LetterF, LetterF>>

\* alphabet.index(c); 0 stands for the ValueError of a missing element
AlphabetIndex(c) ==
    IF \E i \in 1..AsciiLowercaseLen : alphabet[i] = c
    THEN CHOOSE i \in 1..AsciiLowercaseLen : alphabet[i] = c
    ELSE 0

\* _make_user_patterns raises ValueError
MakeUserPatternsRaises(start, restrict) ==
    restrict = <<>> /\ start # <<>> /\ AlphabetIndex(Lower(start[1])) = 0

KeepsPattern(start, pattern) ==
    start = <<>> \/ StrGe(StrReplace(pattern, Star, StarReplacement), start)

_make_user_patterns(start, restrict) ==
    IF restrict # <<>>
    THEN SelectSeq(restrict, LAMBDA pattern : KeepsPattern(start, pattern))
    ELSE IF start # <<>>
         THEN LET start_index == AlphabetIndex(Lower(start[1]))
              IN [i \in 1..(1 + AsciiLowercaseLen - start_index) |->
                    IF i = 1 THEN start \o <<Star>>
                    ELSE <<alphabet[start_index + i - 1], Star>>]
         ELSE [i \in 1..AsciiLowercaseLen |-> <<alphabet[i], Star>>]

(***************************************************************************)
(* Users.pull_from_fas                                                     *)
(***************************************************************************)
\* the configured source realms, in configuration order
FasNames == <<"fasA", "fasB", "fasC">>
FasNameSet == Range(FasNames)

\* the accounts a realm's server holds in the fetch model: every username
FasPeople(fas_name) == Usernames

\* the server's answer to /user/list with search = pattern
SendRequest(fas_name, pattern) ==
    SetToSeq({u \in FasPeople(fas_name) : fnmatchcase(u, pattern)})

\* the post-filter of one search result
FilterPeople(start, people) ==
    IF start # <<>> THEN SelectSeq(people, LAMBDA u : StrGe(u, start)) ELSE people

PullFromFas(start, restrict) ==
    LET patterns == _make_user_patterns(start, restrict)
    IN [fas_name \in FasNameSet |->
          Flatten([i \in 1..Len(patterns) |->
                     FilterPeople(start, SendRequest(fas_name, patterns[i]))])]

(***************************************************************************)
(* The partitioner and fetch as a state machine.                           *)
(***************************************************************************)
StartChoices == StrOver(NameChars \cup {49}, MaxNameLen)

RestrictPool ==
    (StrOver(NameChars, MaxNameLen) \ {<<>>})
        \cup {s \o <<Star>> : s \in StrOver(NameChars, MaxNameLen - 1)}
        \cup {<<Star>> \o s : s \in StrOver(NameChars, 1) \ {<<>>}}

RECURSIVE SeqsUpTo(_, _)
\* all lists over S of length <= n
SeqsUpTo(S, n) ==
    IF n = 0 THEN {<<>>}
    ELSE LET shorter == SeqsUpTo(S, n - 1)
         IN shorter \cup {Append(s, x) : s \in {t \in shorter : Len(t) = n - 1}, x \in S}

NoMatched == [f \in FasNameSet |-> <<>>]

PatternVarsIdle ==
    /\ users_start_at = <<>>
    /\ restrict_users = <<>>
    /\ user_patterns = <<>>
    /\ matched_users = NoMatched

ConflictVarsIdle ==
    /\ fas_users = <<>>
    /\ set_order = <<>>
    /\ users_to_conflicts = <<>>
    /\ baseline = <<>>

UpsertVarsIdle ==
    /\ person = <<>>
    /\ user_args = <<>>
    /\ depth = 0
    /\ status = "none"
    /\ caller = "none"
    /\ runs = <<>>

IpaVarsIdle ==
    /\ ipa_users = <<>>
    /\ ipa_session = "valid"
    /\ faults = [expiries |-> 0, errors |-> 0]
    /\ calls = <<>>

ConfigIdle == config = <<>>

PushVarsIdle ==
    /\ conflicts = <<>>
    /\ push = <<>>
    /\ trace = <<>>

MemberVarsIdle ==
    /\ ipa_groups = <<>>
    /\ reconciler = <<>>
    /\ batches = <<>>

InitPatterns ==
    /\ pc = "start"
    /\ users_start_at \in StartChoices
    /\ restrict_users \in SeqsUpTo(RestrictPool, MaxRestrict)
    /\ user_patterns = <<>>
    /\ matched_users = NoMatched
    /\ ConflictVarsIdle
    /\ ConfigIdle /\ UpsertVarsIdle /\ IpaVarsIdle
    /\ PushVarsIdle /\ MemberVarsIdle

MakeUserPatterns ==
    /\ pc = "start"
    /\ ~MakeUserPatternsRaises(users_start_at, restrict_users)
    /\ user_patterns' = _make_user_patterns(users_start_at, restrict_users)
    /\ pc' = "patterns"
    /\ UNCHANGED <<users_start_at, restrict_users, matched_users, outsidePatterns>>

MakeUserPatternsValueError ==
    /\ pc = "start"
    /\ MakeUserPatternsRaises(users_start_at, restrict_users)
    /\ pc' = "raised"
    /\ UNCHANGED <<patternVars, outsidePatterns>>

pull_from_fas ==
    /\ pc = "start"
    /\ ~MakeUserPatternsRaises(users_start_at, restrict_users)
    /\ user_patterns' = _make_user_patterns(users_start_at, restrict_users)
    /\ matched_users' = PullFromFas(users_start_at, restrict_users)
    /\ pc' = "pulled"
    /\ UNCHANGED <<users_start_at, restrict_users, outsidePatterns>>

NextPatterns == MakeUserPatterns \/ MakeUserPatternsValueError \/ pull_from_fas

SpecPatterns == InitPatterns /\ [][NextPatterns]_vars

(***************************************************************************)
(* C3 - Partition coverage: for any startAt and empty restrict, every      *)
(* username >= startAt matches at least one pattern returned by            *)
(* _make_user_patterns, and pull_from_fas returns no username < startAt.   *)
(***************************************************************************)
C3_PartitionCoverage ==
    /\ (pc = "patterns" /\ restrict_users = <<>> /\ users_start_at # <<>>) =>
          \A u \in Usernames :
              StrGe(u, users_start_at) =>
                  \E i \in 1..Len(user_patterns) : fnmatchcase(u, user_patterns[i])
    /\ (pc = "pulled" /\ restrict_users = <<>> /\ users_start_at # <<>>) =>
          \A f \in FasNameSet : \A i \in 1..Len(matched_users[f]) :
              StrGe(matched_users[f][i], users_start_at)

(***************************************************************************)
(* C4 - Restricted partitioning: with restrict given, the result is the    *)
(* restrict patterns in their order minus those whose maximal match (each  *)
(* '*' replaced by the maximum Unicode code point) sorts before startAt,   *)
(* so no pattern that can match a username >= startAt is dropped.          *)
(***************************************************************************)
MaxUnicode == 1114111

MaximalMatch(pattern) == StrReplace(pattern, Star, <<MaxUnicode>>)

C4_RestrictedPartitioning ==
    (pc = "patterns" /\ restrict_users # <<>>) =>
        /\ user_patterns =
              SelectSeq(restrict_users,
                        LAMBDA p : users_start_at = <<>>
                                   \/ StrGe(MaximalMatch(p), users_start_at))
        /\ \A i \in 1..Len(restrict_users) :
              (\E u \in Usernames : StrGe(u, users_start_at)
                                    /\ fnmatchcase(u, restrict_users[i]))
                  => restrict_users[i] \in Range(user_patterns)

(***************************************************************************)
(* Users.find_user_conflicts                                               *)
(***************************************************************************)
\* email domains: "a.x" and "b.x" are the domains of fasA and fasB, fasC
\* has no email_domain; "m.x" belongs to no realm
DomainA == <<97, 46, 120>>
DomainB == <<98, 46, 120>>
DomainM == <<109, 46, 120>>

\* self.config["fas"]: realm -> its configuration ("email_domain" may be absent)
HasEmailDomain(fas_name) == fas_name \in {"fasA", "fasB"}
EmailDomainOf(fas_name) == IF fas_name = "fasA" THEN DomainA ELSE DomainB

\* fas_email_domains: the realms that configure an email domain
fas_email_domains == {f \in FasNameSet : HasEmailDomain(f)}

NoFas == "<none>"

\* email_domains_fas.get(domain): the last configured realm with that domain
email_domains_fas(domain) ==
    LET idx == {i \in 1..Len(FasNames) :
                   FasNames[i] \in fas_email_domains /\ EmailDomainOf(FasNames[i]) = domain}
    IN IF idx = {} THEN NoFas
       ELSE FasNames[CHOOSE i \in idx : \A j \in idx : j <= i]

MkEmail(mailbox, domain) == mailbox \o <<AtSign>> \o domain

\* email_address.rsplit("@", 1) of an address holding an "@"
RSplitAt(email_address) ==
    LET i == CHOOSE k \in 1..Len(email_address) :
                 /\ email_address[k] = AtSign
                 /\ \A j \in (k + 1)..Len(email_address) : email_address[j] # AtSign
    IN <<SubSeq(email_address, 1, i - 1),
         SubSeq(email_address, i + 1, Len(email_address))>>

UsernamesOf(user_objs) == {user_objs[i].username : i \in 1..Len(user_objs)}

\* {user_obj["username"]: user_obj for user_obj in user_objs}: the last one wins
UsersByNameOf(user_objs) ==
    [name \in UsernamesOf(user_objs) |->
        user_objs[CHOOSE i \in 1..Len(user_objs) :
                      /\ user_objs[i].username = name
                      /\ \A j \in (i + 1)..Len(user_objs) : user_objs[j].username # name]]

\* fas_users_by_name
FasUsersByName(fu) ==
    [f \in {fu[i].fas_name : i \in 1..Len(fu)} |->
        UsersByNameOf((fu[CHOOSE i \in 1..Len(fu) : fu[i].fas_name = f]).users)]

\* mutant: each realm is compared with the next realm only
ComparedPairsAdjacentOnly(fu) == {p \in (1..Len(fu)) \X (1..Len(fu)) : p[2] = p[1] + 1}

\* the pairs (realm, later realm) the nested loop compares
ComparedPairs(fu) == {p \in (1..Len(fu)) \X (1..Len(fu)) : p[1] < p[2]}

\* usernames_to_check_for_fas: duplicate username -> the realms holding it
UsernamesToCheckForFas(fu) ==
    LET common(p) == UsernamesOf(fu[p[1]].users) \cap UsernamesOf(fu[p[2]].users)
        names == UNION {common(p) : p \in ComparedPairs(fu)}
    IN [name \in names |->
          UNION {{fu[p[1]].fas_name, fu[p[2]].fas_name} :
                    p \in {q \in ComparedPairs(fu) : name \in common(q)}}]

\* the realms of a set in the order this process iterates a set of realm names
IterateSet(fas_names, order) == SelectSeq(order, LAMBDA f : f \in fas_names)

RECURSIVE Dedupe(_)
\* the keys of a dict in insertion order
Dedupe(s) ==
    IF s = <<>> THEN <<>>
    ELSE LET front == Dedupe(SubSeq(s, 1, Len(s) - 1))
             last == s[Len(s)]
         IN IF last \in Range(front) THEN front ELSE Append(front, last)

\* email_addresses_to_fas: its keys in insertion order
EmailAddresses(username, fas_names, by_name, order) ==
    LET realms == IterateSet(fas_names, order)
    IN Dedupe([i \in 1..Len(realms) |-> by_name[realms[i]][username].email])

\* email_addresses_to_fas[email_address] before the self-referential step
EmailFas(username, fas_names, by_name, email_address) ==
    {f \in fas_names : by_name[f][username].email = email_address}

IsSelfReferential(username, email_address) ==
    LET parts == RSplitAt(email_address)
    IN parts[1] = username /\ email_domains_fas(parts[2]) # NoFas

DomainFasName(email_address) == email_domains_fas(RSplitAt(email_address)[2])

\* line 575: the realm the address names holds the address itself
IsCircular(username, email_address, fas) ==
    IsSelfReferential(username, email_address) /\ DomainFasName(email_address) \in fas

\* mutant: the circular realm is reported but not removed from the set
AfterRemoveKeepsRealm(username, email_address, fas) == fas

\* the realm set after fas_names.remove(domain_fas_name)
AfterRemove(username, email_address, fas) ==
    IF IsCircular(username, email_address, fas)
    THEN fas \ {DomainFasName(email_address)}
    ELSE fas

\* line 584: realms remain after the removal
IsPointing(username, email_address, fas) ==
    IsSelfReferential(username, email_address)
        /\ AfterRemove(username, email_address, fas) # {}

\* mutant: the realm set is not cleared after email_pointing_to_other_fas
FinalFasNotCleared(username, email_address, fas) ==
    AfterRemove(username, email_address, fas)

\* the realm set after the self-referential step (fas_names.clear())
FinalFas(username, email_address, fas) ==
    IF IsPointing(username, email_address, fas)
    THEN {}
    ELSE AfterRemove(username, email_address, fas)

\* lines 604-607: the entries appended to email_address_conflicts
AddressConflictEntries(username, emails, fasOf) ==
    [i \in 1..Len(emails) |->
        [email_address |-> emails[i],
         fas_names |-> FinalFas(username, emails[i], fasOf[emails[i]])]]

\* user_conflicts of one username; an empty list is an absent key
UserConflicts(username, fas_names, by_name, order) ==
    LET emails == EmailAddresses(username, fas_names, by_name, order)
        fasOf == [e \in Range(emails) |-> EmailFas(username, fas_names, by_name, e)]
        circular == SelectSeq(emails, LAMBDA e : IsCircular(username, e, fasOf[e]))
        pointing == SelectSeq(emails, LAMBDA e : IsPointing(username, e, fasOf[e]))
        remaining == SelectSeq(emails, LAMBDA e : FinalFas(username, e, fasOf[e]) # {})
    IN [circular_email |->
            [i \in 1..Len(circular) |->
                [fas_name |-> DomainFasName(circular[i]),
                 email_address |-> circular[i]]],
        email_pointing_to_other_fas |->
            [i \in 1..Len(pointing) |->
                [tgt_fas_name |-> DomainFasName(pointing[i]),
                 email_address |-> pointing[i],
                 src_fas_names |-> AfterRemove(username, pointing[i], fasOf[pointing[i]])]],
        email_address_conflicts |->
            IF Len(remaining) > 1
            THEN AddressConflictEntries(username, emails, fasOf)
            ELSE <<>>]

ConflictKinds == {"circular_email", "email_pointing_to_other_fas", "email_address_conflicts"}

\* set(user_conflicts): the kinds recorded
KindsOf(user_conflicts) == {k \in ConflictKinds : user_conflicts[k] # <<>>}

FindUserConflicts(fu, order) ==
    LET to_check == UsernamesToCheckForFas(fu)
        by_name == FasUsersByName(fu)
        found == [name \in DOMAIN to_check |->
                     UserConflicts(name, to_check[name], by_name, order)]
    IN [name \in {n \in DOMAIN found : KindsOf(found[n]) # {}} |-> found[name]]

(***************************************************************************)
(* The conflict detector as a state machine: the same per-realm records    *)
(* are presented in every order of the realms, of the records inside a     *)
(* realm's list, and of Python's iteration over a set of realm names.      *)
(***************************************************************************)
Alice == <<97>>
Bob == <<98>>
Zed == <<122>>

AliceEmails ==
    {MkEmail(Alice, DomainA), MkEmail(Alice, DomainB),
     MkEmail(Alice, DomainM), MkEmail(Zed, DomainA)}
BobEmail == MkEmail(Bob, DomainM)

\* the realms that hold an account bob
BobRealmChoices == {{}, {"fasA"}, {"fasA", "fasB"}}

NoEmail == <<>>
NoConflicts == [name \in {} |-> <<>>]

\* the list of one realm: alice with the given address (if any), then bob
RealmUsers(alice_email, has_bob) ==
    (IF alice_email = NoEmail THEN <<>>
     ELSE <<[username |-> Alice, email |-> alice_email]>>)
    \o (IF has_bob THEN <<[username |-> Bob, email |-> BobEmail]>> ELSE <<>>)

\* the detail records of each kind as sets: what is compared across orderings
ConflictSets(found) ==
    [name \in DOMAIN found |->
        [kind \in ConflictKinds |-> Range(found[name][kind])]]

SwapAt(s, i) ==
    [k \in 1..Len(s) |-> IF k = i THEN s[i + 1] ELSE IF k = i + 1 THEN s[i] ELSE s[k]]

InitConflicts ==
    /\ pc = "input"
    /\ PatternVarsIdle
    /\ ConfigIdle /\ UpsertVarsIdle /\ IpaVarsIdle
    /\ PushVarsIdle /\ MemberVarsIdle
    /\ \E emails \in [FasNameSet -> AliceEmails \cup {NoEmail}], bobs \in BobRealmChoices :
          fas_users = [i \in 1..Len(FasNames) |->
                          [fas_name |-> FasNames[i],
                           users |-> RealmUsers(emails[FasNames[i]], FasNames[i] \in bobs)]]
    /\ set_order = FasNames
    /\ users_to_conflicts = NoConflicts
    /\ baseline = ConflictSets(FindUserConflicts(fas_users, set_order))

find_user_conflicts ==
    /\ pc = "input"
    /\ users_to_conflicts' = FindUserConflicts(fas_users, set_order)
    /\ pc' = "found"
    /\ UNCHANGED <<fas_users, set_order, baseline, outsideConflicts>>

\* the caller passes the realms in another order
ReorderRealms ==
    /\ pc = "found"
    /\ \E i \in 1..(Len(fas_users) - 1) : fas_users' = SwapAt(fas_users, i)
    /\ users_to_conflicts' = NoConflicts
    /\ pc' = "input"
    /\ UNCHANGED <<set_order, baseline, outsideConflicts>>

\* a realm's list arrives in another order
ReorderRecords ==
    /\ pc = "found"
    /\ \E r \in 1..Len(fas_users) : \E i \in 1..(Len(fas_users[r].users) - 1) :
          fas_users' = [fas_users EXCEPT ![r].users = SwapAt(@, i)]
    /\ users_to_conflicts' = NoConflicts
    /\ pc' = "input"
    /\ UNCHANGED <<set_order, baseline, outsideConflicts>>

\* another process: another hash seed, another iteration order of the sets
RehashSets ==
    /\ pc = "found"
    /\ \E i \in 1..(Len(set_order) - 1) : set_order' = SwapAt(set_order, i)
    /\ users_to_conflicts' = NoConflicts
    /\ pc' = "input"
    /\ UNCHANGED <<fas_users, baseline, outsideConflicts>>

NextConflicts == find_user_conflicts \/ ReorderRealms \/ ReorderRecords \/ RehashSets

SpecConflicts == InitConflicts /\ [][NextConflicts]_vars

(***************************************************************************)
(* Views of the input the claims about the detector are stated on.         *)
(***************************************************************************)
\* the realms whose list holds the username
RealmsHolding(name) ==
    {fas_users[i].fas_name : i \in {k \in 1..Len(fas_users) :
                                       name \in UsernamesOf(fas_users[k].users)}}

\* the address of the username in a realm that holds it
EmailIn(name, f) ==
    LET r == CHOOSE i \in 1..Len(fas_users) : fas_users[i].fas_name = f
        objs == fas_users[r].users
    IN objs[CHOOSE i \in 1..Len(objs) : objs[i].username = name].email

DuplicateUsernames == {name \in {Alice, Bob} : Cardinality(RealmsHolding(name)) >= 2}

\* the recorded conflicts of a username (nothing recorded: three empty lists)
RecordedFor(name) ==
    IF name \in DOMAIN users_to_conflicts
    THEN users_to_conflicts[name]
    ELSE [kind \in ConflictKinds |-> <<>>]

RealmsWithEmail(name, e) == {f \in RealmsHolding(name) : EmailIn(name, f) = e}
EmailsOf(name) == {EmailIn(name, f) : f \in RealmsHolding(name)}

(***************************************************************************)
(* C5 - Conflict determinism: for fixed per-realm records the detector     *)
(* returns the same conflicts (usernames, kinds, set of detail records per *)
(* kind) for every order of the realms and of the records in each list.    *)
(***************************************************************************)
C5_ConflictDeterminism ==
    pc = "found" => ConflictSets(users_to_conflicts) = baseline

C5_Witness ==
    /\ pc = "found"
    /\ fas_users[1].fas_name = "fasC"
    /\ set_order[1] = "fasB"
    /\ \E r \in 1..Len(fas_users) :
          Len(fas_users[r].users) = 2 /\ fas_users[r].users[1].username = Bob
    /\ Alice \in DOMAIN users_to_conflicts
    /\ users_to_conflicts[Alice].email_address_conflicts # <<>>
    /\ users_to_conflicts[Alice].email_pointing_to_other_fas # <<>>

(***************************************************************************)
(* C6 - email_address_conflicts: for a username in two or more realms,     *)
(* entries are recorded only when more than one distinct address still has *)
(* a non-empty realm set after the self-referential step, and then exactly *)
(* one entry per address whose realm set is still non-empty.               *)
(***************************************************************************)
RemainingEmails(name) ==
    {e \in EmailsOf(name) : FinalFas(name, e, RealmsWithEmail(name, e)) # {}}

C6_AddressConflictEntries ==
    pc = "found" =>
        \A name \in DuplicateUsernames :
            LET entries == RecordedFor(name).email_address_conflicts
            IN IF Cardinality(RemainingEmails(name)) > 1
               THEN /\ Len(entries) = Cardinality(RemainingEmails(name))
                    /\ {entries[i].email_address : i \in 1..Len(entries)}
                          = RemainingEmails(name)
                    /\ \A i \in 1..Len(entries) : entries[i].fas_names # {}
               ELSE entries = <<>>

(***************************************************************************)
(* C7 - circular_email (as claimed): for a username u in two or more       *)
(* realms, if some realm's record has the address u@D, D the email domain  *)
(* of realm B, and u also exists in realm B, exactly one circular_email    *)
(* conflict is recorded for u, B is removed from that address's realm set, *)
(* and nothing else is recorded when no other address remains.             *)
(***************************************************************************)
\* no recorded detail of the address still names realm B
RealmRemoved(name, e, B) ==
    /\ \A i \in 1..Len(RecordedFor(name).email_pointing_to_other_fas) :
          LET d == RecordedFor(name).email_pointing_to_other_fas[i]
          IN d.email_address = e => B \notin d.src_fas_names
    /\ \A i \in 1..Len(RecordedFor(name).email_address_conflicts) :
          LET d == RecordedFor(name).email_address_conflicts[i]
          IN d.email_address = e => B \notin d.fas_names

OnlyOneCircular(name) ==
    /\ Len(RecordedFor(name).circular_email) = 1
    /\ RecordedFor(name).email_pointing_to_other_fas = <<>>
    /\ RecordedFor(name).email_address_conflicts = <<>>

C7_CircularEmailAsClaimed ==
    pc = "found" =>
        \A name \in DuplicateUsernames : \A B \in fas_email_domains :
            LET e == MkEmail(name, EmailDomainOf(B))
            IN (B \in RealmsHolding(name) /\ e \in EmailsOf(name)) =>
                  /\ Len(RecordedFor(name).circular_email) = 1
                  /\ RealmRemoved(name, e, B)
                  /\ EmailsOf(name) = {e} => OnlyOneCircular(name)

(***************************************************************************)
(* C7 (amended) - if realm B's own record of u has the address u@D, D the  *)
(* email domain the detector maps to B, exactly one circular_email entry   *)
(* is recorded for that address (naming B), B is removed from the          *)
(* address's realm set, and nothing else is recorded for u when no other   *)
(* realm shares the address and the other realms' records all carry one    *)
(* address that is not self-referential.                                   *)
(***************************************************************************)
C7_CircularEmail ==
    pc = "found" =>
        \A name \in DuplicateUsernames : \A B \in fas_email_domains :
            LET e == MkEmail(name, EmailDomainOf(B))
                circular == RecordedFor(name).circular_email
                others == EmailsOf(name) \ {e}
            IN (/\ email_domains_fas(EmailDomainOf(B)) = B
                /\ B \in RealmsHolding(name)
                /\ EmailIn(name, B) = e) =>
                  /\ Cardinality({i \in 1..Len(circular) :
                                     circular[i].email_address = e}) = 1
                  /\ \A i \in 1..Len(circular) :
                        circular[i].email_address = e => circular[i].fas_name = B
                  /\ RealmRemoved(name, e, B)
                  /\ (/\ RealmsWithEmail(name, e) = {B}
                      /\ Cardinality(others) = 1
                      /\ \A o \in others : ~IsSelfReferential(name, o))
                        => OnlyOneCircular(name)

C7_Witness ==
    /\ pc = "found"
    /\ RealmsHolding(Alice) = {"fasA", "fasB"}
    /\ EmailIn(Alice, "fasB") = MkEmail(Alice, DomainB)
    /\ EmailIn(Alice, "fasA") = MkEmail(Alice, DomainM)
    /\ Alice \in DOMAIN users_to_conflicts
    /\ OnlyOneCircular(Alice)
    /\ users_to_conflicts[Alice].circular_email[1].fas_name = "fasB"

(***************************************************************************)
(* Users.migrate_user: the mapping of a source record to the target        *)
(* fields.  A record is a function from its keys to their values; None is  *)
(* the value NoneVal (NoneList where the field holds a list).              *)
(***************************************************************************)
NoneVal == <<-1>>
NoneList == <<NoneVal>>

STR_active == <<97, 99, 116, 105, 118, 101>>
STR_inactive == <<105, 110, 97, 99, 116, 105, 118, 101>>
STR_spamcheck_denied ==
    <<115, 112, 97, 109, 99, 104, 101, 99, 107, 95, 100, 101, 110, 105, 101, 100>>
FirstNameUnset ==
    <<60, 102, 105, 114, 115, 116, 45, 110, 97, 109, 101, 45, 117, 110, 115, 101, 116, 62>>
LastNameUnset ==
    <<60, 108, 97, 115, 116, 45, 110, 97, 109, 101, 45, 117, 110, 115, 101, 116, 62>>
FullNameUnset == FirstNameUnset \o <<Space>> \o LastNameUnset
STR_en_US == <<101, 110, 95, 85, 83>>
STR_UTC == <<85, 84, 67>>
STR_home_fedora == <<47, 104, 111, 109, 101, 47, 102, 101, 100, 111, 114, 97, 47>>
STR_plus_zero == <<43, 48, 48, 58, 48, 48>>
LetterZ == 90
GpgKeyIdLen == 16

Whitespace == {Space, Newline, 9, 13}
Digits == 48..57

\* bool(v) of a str or None
Truthy(v) == v # NoneVal /\ v # <<>>

\* s.strip()
Strip(s) ==
    LET idx == {i \in 1..Len(s) : s[i] \notin Whitespace}
    IN IF idx = {} THEN <<>>
       ELSE SubSeq(s, CHOOSE i \in idx : \A j \in idx : i <= j,
                      CHOOSE i \in idx : \A j \in idx : j <= i)

RECURSIVE SplitOn(_, _)
\* s.split(ch) for a one-character separator: empty pieces are kept
SplitOn(s, ch) ==
    LET idx == {i \in 1..Len(s) : s[i] = ch}
    IN IF idx = {} THEN <<s>>
       ELSE LET i == CHOOSE k \in idx : \A j \in idx : k <= j
            IN <<SubSeq(s, 1, i - 1)>> \o SplitOn(SubSeq(s, i + 1, Len(s)), ch)

RECURSIVE RunLen(_, _, _)
\* the length of the run of characters of chars that starts at s[i]
RunLen(s, i, chars) ==
    IF i > Len(s) \/ s[i] \notin chars THEN 0 ELSE 1 + RunLen(s, i + 1, chars)

\* CREATION_TIME_RE = ([0-9 :-]+).[0-9]+\+00:00 matched at s[i] with a group
\* of g characters: the index of the last matched character, or 0
CreationMatchEnd(s, i, g) ==
    LET d == RunLen(s, i + g + 1, Digits)
        last == i + g + d + Len(STR_plus_zero)
    IN IF /\ i + g <= Len(s)
          /\ s[i + g] # Newline
          /\ d >= 1
          /\ last <= Len(s)
          /\ SubSeq(s, i + g + 1 + d, last) = STR_plus_zero
       THEN last ELSE 0

\* the greedy group length of a match at s[i], or 0
CreationGroupLen(s, i) ==
    LET gs == {g \in 1..RunLen(s, i, Digits \cup {Space, 58, 45}) :
                  CreationMatchEnd(s, i, g) # 0}
    IN IF gs = {} THEN 0 ELSE CHOOSE g \in gs : \A h \in gs : h <= g

RECURSIVE CreationTimeSubFrom(_, _)
CreationTimeSubFrom(s, i) ==
    IF i > Len(s) THEN <<>>
    ELSE LET g == CreationGroupLen(s, i)
         IN IF g = 0 THEN <<s[i]>> \o CreationTimeSubFrom(s, i + 1)
            ELSE SubSeq(s, i, i + g - 1) \o <<LetterZ>>
                    \o CreationTimeSubFrom(s, CreationMatchEnd(s, i, g) + 1)

\* CREATION_TIME_RE.sub(r"\1Z", creation)
CreationTimeSub(creation) == CreationTimeSubFrom(creation, 1)

\* the keys migrate_user drops without looking at them
ignored_keys ==
    {"affiliation", "alias_enabled", "certificate_serial", "comments", "country_code",
     "facsimile", "group_roles", "id", "internal_comments", "ipa_sync_status",
     "last_seen", "latitude", "longitude", "memberships", "old_password", "password",
     "password_changed", "postal_address", "roles", "security_answer",
     "security_question", "status_change", "telephone", "unverified_email"}

\* any(t in key for t in ("token",)), for the keys of the model
HasIgnoredSubstring(key) == key \in {"api_token", "token"}

\* the keys migrate_user pops
PoppedKeys ==
    {"username", "human_name", "status", "email", "ircnick", "locale", "timezone",
     "gpg_keyid", "ssh_key", "creation", "privacy"}

\* the keys left after the ignored ones are removed
KeptKeys(p) ==
    {key \in DOMAIN p : ~(key \in ignored_keys \/ HasIgnoredSubstring(key))}

\* a person.pop(...) raises KeyError
PopRaises(p) == ~(PoppedKeys \subseteq KeptKeys(p))

\* mutant: the check for unprocessed details is dropped
UnprocessedIgnored(p) == {}

\* "if person:" after the pops: unprocessed details are left
Unprocessed(p) == KeptKeys(p) \ PoppedKeys

\* person.get("status")
GetStatus(p) == IF "status" \in DOMAIN p THEN p.status ELSE NoneVal

\* lines 309-321: name, first_name, last_name
DerivedName(human_name) ==
    IF Truthy(human_name)
    THEN LET name == Strip(human_name)
             name_split == SplitOn(name, Space)
         IN IF Len(name_split) > 2 \/ Len(name_split) = 1
            THEN [name |-> name, first_name |-> FirstNameUnset, last_name |-> name]
            ELSE [name |-> name,
                  first_name |-> Strip(name_split[1]),
                  last_name |-> Strip(name_split[2])]
    ELSE [name |-> FullNameUnset,
          first_name |-> FirstNameUnset,
          last_name |-> LastNameUnset]

\* value.strip() if value else None
StripOrNone(v) == IF Truthy(v) THEN Strip(v) ELSE NoneVal

StripAll(ss) == [i \in 1..Len(ss) |-> Strip(ss[i])]

\* [k.strip() for k in ssh_key.split("\n") if k.strip()] if ssh_key else None
SshPubKeys(ssh_key) ==
    IF Truthy(ssh_key)
    THEN SelectSeq(StripAll(SplitOn(ssh_key, Newline)), LAMBDA k : k # <<>>)
    ELSE NoneList

\* [gpg_keyid[:16].strip()] if gpg_keyid else None
GpgKeyIds(gpg_keyid) ==
    IF Truthy(gpg_keyid)
    THEN <<Strip(SubSeq(gpg_keyid, 1, IF Len(gpg_keyid) < GpgKeyIdLen
                                      THEN Len(gpg_keyid) ELSE GpgKeyIdLen))>>
    ELSE NoneList

\* building user_args raises inside the try block (a method of None, a
\* regular expression applied to None)
UserArgsRaises(p) == p.status = NoneVal \/ p.creation = NoneVal

\* lines 323-340: user_args
UserArgs(p) ==
    LET n == DerivedName(p.human_name)
    IN [first_name |-> n.first_name,
        last_name |-> n.last_name,
        full_name |-> n.name,
        gecos |-> n.name,
        display_name |-> n.name,
        home_directory |-> STR_home_fedora \o p.username,
        disabled |-> p.status # STR_active,
        mail |-> p.email,
        ipasshpubkey |-> SshPubKeys(p.ssh_key),
        fasircnick |-> StripOrNone(p.ircnick),
        faslocale |-> StripOrNone(p.locale),
        fastimezone |-> StripOrNone(p.timezone),
        fasgpgkeyid |-> GpgKeyIds(p.gpg_keyid),
        fasstatusnote |-> Strip(p.status),
        fasisprivate |-> p.privacy,
        fascreationtime |-> CreationTimeSub(p.creation)]

UserArgKeys ==
    {"first_name", "last_name", "full_name", "gecos", "display_name", "home_directory",
     "disabled", "mail", "ipasshpubkey", "fasircnick", "faslocale", "fastimezone",
     "fasgpgkeyid", "fasstatusnote", "fasisprivate", "fascreationtime"}
ListKeys == {"ipasshpubkey", "fasgpgkeyid"}
BoolKeys == {"disabled", "fasisprivate", "random_pass"}

\* x or default, of a str or None
OrDefault(v, default) == IF Truthy(v) THEN v ELSE default

\* mutant: the created record keeps a missing locale and timezone as None
UserAddArgsWithoutDefaults(ua) ==
    [k \in UserArgKeys \cup {"random_pass"} |->
        IF k = "random_pass" THEN TRUE ELSE ua[k]]

\* lines 342-346: user_add_args
UserAddArgs(ua) ==
    [k \in UserArgKeys \cup {"random_pass"} |->
        IF k = "random_pass" THEN TRUE
        ELSE IF k = "faslocale" THEN OrDefault(ua.faslocale, STR_en_US)
        ELSE IF k = "fastimezone" THEN OrDefault(ua.fastimezone, STR_UTC)
        ELSE ua[k]]

\* lines 352-357: the names that are still the unset placeholders are deleted
DropsPlaceholder(ua, k) ==
    \/ k = "first_name" /\ ua.first_name = FirstNameUnset
    \/ k = "last_name" /\ ua.last_name = LastNameUnset
    \/ k = "full_name" /\ ua.full_name = FullNameUnset

\* line 360: the existing record is fetched
NeedsUserShow(ua) ==
    ua.faslocale = NoneVal \/ ua.fastimezone = NoneVal

\* ipa_user.get(key), of the record user_show returned
IpaUserGet(ipa_user, key) == IF key \in DOMAIN ipa_user THEN ipa_user[key] ELSE NoneVal

\* lines 362-365: locale and timezone filled from the existing record
FillFromExisting(ua, ipa_user) ==
    [ua EXCEPT
        !.faslocale = IF ~Truthy(@)
                      THEN OrDefault(IpaUserGet(ipa_user, "faslocale"), STR_en_US) ELSE @,
        !.fastimezone = IF ~Truthy(@)
                        THEN OrDefault(IpaUserGet(ipa_user, "fastimezone"), STR_UTC) ELSE @]

\* v is not None and (not isinstance(v, str) or v.strip())
KeepsValue(k, v) ==
    IF k \in BoolKeys THEN TRUE
    ELSE IF k \in ListKeys THEN v # NoneList
    ELSE v # NoneVal /\ Strip(v) # <<>>

\* lines 352-371: the keyword arguments of user_mod
UserModArgs(ua) ==
    [k \in {key \in UserArgKeys :
               ~DropsPlaceholder(ua, key) /\ KeepsValue(key, ua[key])}
        |-> ua[k]]

(***************************************************************************)
(* The target directory (python_freeipa client and server).  It answers    *)
(* from its stored state; its session may expire and it may answer a hard  *)
(* error, each a bounded number of times.                                  *)
(***************************************************************************)
MaxExpiries == 1
MaxErrors == 1
MaxRuns == 2

\* the message of the error user_add raises for an existing user
MsgAlreadyExists(username) == <<"user with name \"", username, "\" already exists">>
MsgNoModifications == <<"no modifications to be performed">>
MsgOther == <<"invalid 'login': may only include letters, numbers, _, -, . and $">>

\* the answers of the directory: no exception, or an exception and its message
Ok == [exc |-> "none", message |-> <<"">>]
Unauthorized == [exc |-> "Unauthorized", message |-> <<"Unauthorized">>]
HardError == [exc |-> "FreeIPAError", message |-> MsgOther]
DuplicateEntry(username) == [exc |-> "DuplicateEntry", message |-> MsgAlreadyExists(username)]
EmptyModlist == [exc |-> "BadRequest", message |-> MsgNoModifications]

\* the answers to a call whose answer from the stored state is stored_answer
Answers(stored_answer) ==
    IF ipa_session = "expired" THEN {Unauthorized}
    ELSE {stored_answer} \cup (IF faults.errors > 0 THEN {HardError} ELSE {})

\* the directory's budget of hard errors after the answer
Spent(answer) ==
    faults' = IF answer = HardError THEN [faults EXCEPT !.errors = @ - 1] ELSE faults

\* the directory holds the same value for every field the update names
NothingToModify(stored, args) == \A k \in DOMAIN args : stored[k] = args[k]

\* the record after user_mod
Modified(stored, args) ==
    [k \in DOMAIN stored |-> IF k \in DOMAIN args THEN args[k] ELSE stored[k]]

\* one more user in the directory
WithUser(users, username, fields) ==
    [u \in DOMAIN users \cup {username} |-> IF u = username THEN fields ELSE users[u]]

\* ObjectManager.user_show: the stored fields of the user
UserShow(users, username) == users[username]

Logged(entry) == calls' = Append(calls, entry)

\* the session expires between two calls
SessionExpires ==
    /\ pc \in {"mu_user_add", "mu_user_show", "mu_user_mod"}
    /\ ipa_session = "valid"
    /\ faults.expiries > 0
    /\ ipa_session' = "expired"
    /\ faults' = [faults EXCEPT !.expiries = @ - 1]
    /\ UNCHANGED <<pc, ipa_users, calls, upsertVars, outsideUpsert>>

(***************************************************************************)
(* Users.migrate_user, step by step: the part before the first directory   *)
(* call, then one action per directory call with the handling of its       *)
(* answer.                                                                 *)
(***************************************************************************)
Return(result) == pc' = "mu_return" /\ status' = result

\* lines 233-340: early exits, field partition, name derivation, user_args
MigrateUserEntry ==
    /\ pc = "mu_entry"
    /\ IF config.skip_disabled /\ GetStatus(person) # STR_active
       THEN Return("SKIPPED") /\ UNCHANGED user_args
       ELSE IF config.skip_spam /\ GetStatus(person) = STR_spamcheck_denied
       THEN Return("SKIPPED") /\ UNCHANGED user_args
       ELSE IF config.skip_user_add
       THEN Return("UNMODIFIED") /\ UNCHANGED user_args
       ELSE IF PopRaises(person)
       THEN pc' = "raised" /\ UNCHANGED <<status, user_args>>
       ELSE IF Unprocessed(person) # {}
       THEN Return("FAILED") /\ UNCHANGED user_args
       ELSE IF UserArgsRaises(person)
       THEN Return("FAILED") /\ UNCHANGED user_args
       ELSE /\ user_args' = UserArgs(person)
            /\ pc' = "mu_user_add"
            /\ UNCHANGED status
    /\ UNCHANGED <<person, depth, caller, runs, ipaVars, outsideUpsert>>

\* mutant: every FreeIPAError is a failure
HandleFreeIPAErrorAsFailure(message) == "FAILED"

\* lines 384-388: a FreeIPAError that is not an expired session
HandleFreeIPAError(message) ==
    IF message # MsgNoModifications THEN "FAILED" ELSE "UNMODIFIED"

\* lines 379-391: the except clauses of the outer try
Handle(answer) ==
    IF answer.exc = "Unauthorized"
    THEN pc' = "mu_login" /\ UNCHANGED status
    ELSE Return(HandleFreeIPAError(answer.message))

\* lines 341-350 and 376-377: self.ipa.user_add and the handling of its answer
IpaUserAdd ==
    /\ pc = "mu_user_add"
    /\ \E answer \in Answers(IF person.username \in DOMAIN ipa_users
                             THEN DuplicateEntry(person.username) ELSE Ok) :
          /\ Logged([op |-> "user_add", username |-> person.username,
                     args |-> UserAddArgs(user_args), answer |-> answer])
          /\ Spent(answer)
          /\ IF answer = Ok
             THEN /\ ipa_users' = WithUser(ipa_users, person.username,
                                           UserAddArgs(user_args))
                  /\ Return("ADDED")
             ELSE IF answer.message = MsgAlreadyExists(person.username)
             THEN /\ pc' = IF NeedsUserShow(user_args)
                           THEN "mu_user_show" ELSE "mu_user_mod"
                  /\ UNCHANGED <<status, ipa_users>>
             ELSE Handle(answer) /\ UNCHANGED ipa_users
    /\ UNCHANGED <<person, user_args, depth, caller, runs, ipa_session, outsideUpsert>>

\* lines 360-365: self.user_show and the filling of locale and timezone
IpaUserShow ==
    /\ pc = "mu_user_show"
    /\ \E answer \in Answers(Ok) :
          /\ Logged([op |-> "user_show", username |-> person.username,
                     answer |-> answer])
          /\ Spent(answer)
          /\ IF answer = Ok
             THEN /\ user_args' = FillFromExisting(user_args,
                                                   UserShow(ipa_users, person.username))
                  /\ pc' = "mu_user_mod"
                  /\ UNCHANGED status
             ELSE Handle(answer) /\ UNCHANGED user_args
    /\ UNCHANGED <<person, depth, caller, runs, ipa_users, ipa_session, outsideUpsert>>

\* lines 367-375: self.ipa.user_mod and the handling of its answer
IpaUserMod ==
    /\ pc = "mu_user_mod"
    /\ \E answer \in Answers(IF NothingToModify(ipa_users[person.username],
                                                UserModArgs(user_args))
                             THEN EmptyModlist ELSE Ok) :
          /\ Logged([op |-> "user_mod", username |-> person.username,
                     args |-> UserModArgs(user_args), answer |-> answer])
          /\ Spent(answer)
          /\ IF answer = Ok
             THEN /\ ipa_users' = [ipa_users EXCEPT ![person.username] =
                                       Modified(@, UserModArgs(user_args))]
                  /\ Return("UPDATED")
             ELSE Handle(answer) /\ UNCHANGED ipa_users
    /\ UNCHANGED <<person, user_args, depth, caller, runs, ipa_session, outsideUpsert>>

\* lines 379-383: self.ipa.login and the retry on the original record
IpaLogin ==
    /\ pc = "mu_login"
    /\ Logged([op |-> "login", answer |-> Ok])
    /\ ipa_session' = "valid"
    /\ depth' = depth + 1
    /\ pc' = "mu_entry"
    /\ UNCHANGED <<person, user_args, status, caller, runs, ipa_users, faults, outsideUpsert>>

(***************************************************************************)
(* migrate_user called twice or more on one unchanged record: the source   *)
(* records, the states of the target directory and the flags of the        *)
(* configuration it is run on.                                             *)
(***************************************************************************)
STR_fr_FR == <<102, 114, 95, 70, 82>>
STR_de_DE == <<100, 101, 95, 68, 69>>
STR_CET == <<67, 69, 84>>
STR_EST == <<69, 83, 84>>
STR_Al == <<65, 108>>
STR_Smith == <<83, 109, 105, 116, 104>>
STR_Al_Smith == STR_Al \o <<Space>> \o STR_Smith
STR_a_b == <<97, Space, 98>>
STR_a_b_c == <<Space, 97, Space, 98, Space, 99>>
STR_nick == <<Space, 110, 105, 99, 107, Space>>
STR_two_keys == <<107, 49, Newline, Newline, Space, 107, 50, Space>>
STR_gpg17 == <<48, 49, 50, 51, 52, 53, 54, 55, 56, 57, 65, 66, 67, 68, 69, 70, 48>>
STR_creation == <<49, 58, 50, 46, 53, 43, 48, 48, 58, 48, 48>>
AliceMail == MkEmail(Alice, DomainM)

\* a well-formed record of alice, with some of the keys migrate_user ignores
BasePerson ==
    [username |-> Alice, human_name |-> STR_a_b, status |-> STR_active,
     email |-> AliceMail, ircnick |-> <<>>, locale |-> <<>>, timezone |-> <<>>,
     gpg_keyid |-> <<>>, ssh_key |-> <<>>, creation |-> STR_creation,
     privacy |-> FALSE, id |-> 7, password |-> <<120>>, api_token |-> <<121>>,
     group_roles |-> <<>>, memberships |-> <<>>]

WithKey(p, key, value) ==
    [k \in DOMAIN p \cup {key} |-> IF k = key THEN value ELSE p[k]]

WithoutKey(p, key) == [k \in DOMAIN p \ {key} |-> p[k]]

HumanNames == {<<>>, <<97>>, STR_a_b, STR_a_b_c, <<Space>>}
Statuses == {STR_active, STR_inactive, STR_spamcheck_denied}
Locales == {<<>>, <<Space, Space>>, STR_fr_FR}
Timezones == {<<>>, STR_CET}

\* the records that differ in the fields the upsert decides on
VariedPersons ==
    {[BasePerson EXCEPT !.locale = l, !.timezone = tz] : l \in Locales, tz \in Timezones}
    \cup {[BasePerson EXCEPT !.human_name = h] : h \in HumanNames}
    \cup {[BasePerson EXCEPT !.status = st] : st \in Statuses}

\* the records that differ from the base record in one other respect
OtherPersons ==
    {[BasePerson EXCEPT !.ircnick = STR_nick, !.ssh_key = STR_two_keys,
                        !.gpg_keyid = STR_gpg17, !.privacy = TRUE],
     [BasePerson EXCEPT !.email = NoneVal],
     [BasePerson EXCEPT !.status = NoneVal],
     [BasePerson EXCEPT !.creation = NoneVal],
     WithKey(BasePerson, "nickname", <<110>>),
     WithKey([BasePerson EXCEPT !.human_name = <<>>], "nickname", <<110>>),
     WithoutKey(BasePerson, "email")}

PersonPool == VariedPersons \cup OtherPersons

\* a record the target directory already holds for alice, with a real name
ExistingUser(locale, timezone) ==
    [first_name |-> STR_Al, last_name |-> STR_Smith, full_name |-> STR_Al_Smith,
     gecos |-> STR_Al_Smith, display_name |-> STR_Al_Smith,
     home_directory |-> STR_home_fedora \o Alice, disabled |-> FALSE,
     mail |-> AliceMail, ipasshpubkey |-> NoneList, fasircnick |-> NoneVal,
     faslocale |-> locale, fastimezone |-> timezone, fasgpgkeyid |-> NoneList,
     fasstatusnote |-> STR_active, fasisprivate |-> FALSE,
     fascreationtime |-> STR_creation, random_pass |-> FALSE]

NoUsers == [u \in {} |-> <<>>]

TargetPool ==
    {NoUsers,
     WithUser(NoUsers, Alice, ExistingUser(STR_de_DE, STR_EST)),
     WithUser(NoUsers, Alice, ExistingUser(NoneVal, NoneVal))}

UpsertConfig(d, sp, a) == [skip_disabled |-> d, skip_spam |-> sp, skip_user_add |-> a]

UpsertConfigs ==
    {UpsertConfig(FALSE, FALSE, FALSE), UpsertConfig(FALSE, TRUE, FALSE),
     UpsertConfig(FALSE, FALSE, TRUE), UpsertConfig(TRUE, FALSE, TRUE)}

InitUpsert ==
    /\ pc = "idle"
    /\ PatternVarsIdle
    /\ ConflictVarsIdle
    /\ config \in UpsertConfigs
    /\ person \in PersonPool
    /\ user_args = <<>>
    /\ depth = 0
    /\ status = "none"
    /\ caller = "driver"
    /\ runs = <<>>
    /\ ipa_users \in TargetPool
    /\ ipa_session = "valid"
    /\ faults = [expiries |-> MaxExpiries, errors |-> MaxErrors]
    /\ calls = <<>>
    /\ PushVarsIdle /\ MemberVarsIdle

\* the caller runs migrate_user on the record (again)
CallMigrateUser ==
    /\ pc = "idle"
    /\ caller = "driver"
    /\ Len(runs) < MaxRuns
    /\ pc' = "mu_entry"
    /\ depth' = 0
    /\ status' = "none"
    /\ runs' = Append(runs, [status |-> "running", before |-> ipa_users,
                             errors |-> faults.errors, calls |-> Len(calls)])
    /\ UNCHANGED <<person, user_args, caller, ipaVars, outsideUpsert>>

\* migrate_user returned to the caller
MigrateUserReturns ==
    /\ pc = "mu_return"
    /\ caller = "driver"
    /\ runs' = [runs EXCEPT ![Len(runs)] =
                   [status |-> status, before |-> @.before, after |-> ipa_users,
                    hard_error |-> faults.errors < @.errors,
                    calls |-> SubSeq(calls, @.calls + 1, Len(calls))]]
    /\ pc' = "idle"
    /\ UNCHANGED <<person, user_args, depth, status, caller, ipaVars, outsideUpsert>>

NextUpsert ==
    \/ CallMigrateUser
    \/ MigrateUserEntry
    \/ IpaUserAdd
    \/ IpaUserShow
    \/ IpaUserMod
    \/ IpaLogin
    \/ SessionExpires
    \/ MigrateUserReturns

SpecUpsert == InitUpsert /\ [][NextUpsert]_vars

(***************************************************************************)
(* Views of the completed runs.                                            *)
(***************************************************************************)
Completed(i) == i \in 1..Len(runs) /\ runs[i].status # "running"

\* two runs in a row, the directory answering both from its stored state
RanTwice(i) ==
    /\ Completed(i) /\ Completed(i + 1)
    /\ ~runs[i].hard_error /\ ~runs[i + 1].hard_error

\* no field the target held after run i has another value after run i + 1
NoFieldChanged(i) ==
    \A u \in DOMAIN runs[i].after :
        /\ u \in DOMAIN runs[i + 1].after
        /\ \A k \in DOMAIN runs[i].after[u] :
              runs[i + 1].after[u][k] = runs[i].after[u][k]

(***************************************************************************)
(* C1 - Upsert idempotence (as claimed): for every source record and       *)
(* target state, two runs in a row on the unchanged record give ADDED then *)
(* UNMODIFIED or UPDATED then UNMODIFIED, the second run is never FAILED   *)
(* and no target field differs after the second run.                       *)
(***************************************************************************)
C1_IdempotenceAsClaimed ==
    \A i \in 1..(Len(runs) - 1) :
        RanTwice(i) =>
            /\ <<runs[i].status, runs[i + 1].status>>
                  \in {<<"ADDED", "UNMODIFIED">>, <<"UPDATED", "UNMODIFIED">>}
            /\ runs[i + 1].status # "FAILED"
            /\ NoFieldChanged(i)

(***************************************************************************)
(* C1 (amended) - with a directory that answers from its stored state:     *)
(* after a run that returned ADDED or UPDATED the next run on the          *)
(* unchanged record returns UNMODIFIED; after any other outcome (SKIPPED,  *)
(* UNMODIFIED, FAILED) the next run returns that same outcome, so it is    *)
(* FAILED only for a record the first run failed on; and no target field   *)
(* differs after the second run.                                           *)
(***************************************************************************)
C1_UpsertIdempotence ==
    \A i \in 1..(Len(runs) - 1) :
        RanTwice(i) =>
            /\ runs[i].status \in {"ADDED", "UPDATED"} => runs[i + 1].status = "UNMODIFIED"
            /\ runs[i].status \notin {"ADDED", "UPDATED"} =>
                  runs[i + 1].status = runs[i].status
            /\ NoFieldChanged(i)

C1_Witness ==
    /\ RanTwice(1)
    /\ runs[1].status = "UPDATED"
    /\ runs[2].status = "UNMODIFIED"
    /\ \E j \in 1..Len(runs[2].calls) : runs[2].calls[j].op = "user_mod"
    /\ person.locale = <<>>

(***************************************************************************)
(* C2 - Placeholder non-regression: for an existing target record with a   *)
(* real name and a source record without a human name, the update sent to  *)
(* the directory holds no name field whose value is an unset placeholder.  *)
(***************************************************************************)
NameKeys == {"first_name", "last_name", "full_name", "gecos", "display_name"}
Placeholders == {FirstNameUnset, LastNameUnset, FullNameUnset}

HoldsRealName(stored) == \A k \in NameKeys : stored[k] \notin Placeholders

C2_PlaceholderNonRegression ==
    \A i \in 1..Len(runs) :
        (/\ Completed(i)
         /\ "human_name" \in DOMAIN person
         /\ ~Truthy(person.human_name)
         /\ person.username \in DOMAIN runs[i].before
         /\ HoldsRealName(runs[i].before[person.username])) =>
            \A j \in 1..Len(runs[i].calls) :
                runs[i].calls[j].op = "user_mod" =>
                    \A k \in NameKeys \cap DOMAIN runs[i].calls[j].args :
                        runs[i].calls[j].args[k] \notin Placeholders

(***************************************************************************)
(* Group membership in the target directory.  A membership call names a    *)
(* group and a batch of users; the server handles the users of the batch   *)
(* one after the other and lists the ones it could not handle together     *)
(* with a message.                                                         *)
(***************************************************************************)
MsgAlreadyMember == <<"This entry is already a member">>
MsgNotMember == <<"This entry is not a member">>
MsgNoSuchEntry == <<"no such entry">>

RECURSIVE GroupAddResult(_, _, _)
\* the members of a group after the users of chunk were added, and the
\* (user, message) pairs of the users that were not added
GroupAddResult(members, chunk, known) ==
    IF chunk = <<>> THEN [members |-> members, failed |-> <<>>]
    ELSE LET m == Head(chunk)
             Refused(message) ==
                 LET r == GroupAddResult(members, Tail(chunk), known)
                 IN [r EXCEPT !.failed = <<<<m, message>>>> \o @]
         IN IF m \notin known THEN Refused(MsgNoSuchEntry)
            ELSE IF m \in members THEN Refused(MsgAlreadyMember)
            ELSE GroupAddResult(members \cup {m}, Tail(chunk), known)

RECURSIVE GroupRemoveResult(_, _)
GroupRemoveResult(members, chunk) ==
    IF chunk = <<>> THEN [members |-> members, failed |-> <<>>]
    ELSE LET m == Head(chunk)
         IN IF m \notin members
            THEN LET r == GroupRemoveResult(members, Tail(chunk))
                 IN [r EXCEPT !.failed = <<<<m, MsgNotMember>>>> \o @]
            ELSE GroupRemoveResult(members \ {m}, Tail(chunk))

\* the answers to a membership call: the exception it ends in, the failed
\* users it lists and the groups of the directory after it
GroupAnswers(group, attr, result) ==
    (IF group \notin DOMAIN ipa_groups
     THEN {[exc |-> "NotFound", failed |-> <<>>, groups |-> ipa_groups]}
     ELSE {[exc |-> IF result.failed = <<>> THEN "none" ELSE "ValidationError",
            failed |-> result.failed,
            groups |-> [ipa_groups EXCEPT ![group][attr] = result.members]]})
    \cup (IF faults.errors > 0
          THEN {[exc |-> "Exception", failed |-> <<>>, groups |-> ipa_groups]}
          ELSE {})

\* group_add_member (attr "member") or group_add_member_manager ("membermanager")
GroupAddAnswers(group, chunk, attr) ==
    GroupAnswers(group, attr,
                 IF group \in DOMAIN ipa_groups
                 THEN GroupAddResult(ipa_groups[group][attr], chunk, DOMAIN ipa_users)
                 ELSE [members |-> {}, failed |-> <<>>])

\* group_remove_member
GroupRemoveAnswers(group, chunk) ==
    GroupAnswers(group, "member",
                 IF group \in DOMAIN ipa_groups
                 THEN GroupRemoveResult(ipa_groups[group].member, chunk)
                 ELSE [members |-> {}, failed |-> <<>>])

(***************************************************************************)
(* Users.add_users_to_groups and Users.remove_users_from_groups            *)
(***************************************************************************)
\* bounds: the batch sizes the configuration is given
SmallChunk == 2
LargeChunk == 5

RECURSIVE SortedStrings(_)
\* sorted(S) of a set of str
SortedStrings(S) ==
    IF S = {} THEN <<>>
    ELSE LET least == CHOOSE x \in S : \A y \in S \ {x} : StrLt(x, y)
         IN <<least>> \o SortedStrings(S \ {least})

\* ObjectManager.chunks: the list cut into batches of the configured size
chunks(members, size) ==
    [i \in 1..((Len(members) + size - 1) \div size) |->
        SubSeq(members, (i - 1) * size + 1,
               IF i * size < Len(members) THEN i * size ELSE Len(members))]

\* sum([len(members) for members in groups_to_users.values()])
Total(groups_to_users) ==
    LET RECURSIVE Sum(_)
        Sum(S) == IF S = {} THEN 0
                  ELSE LET g == CHOOSE x \in S : TRUE
                       IN Len(groups_to_users[g]) + Sum(S \ {g})
    IN Sum(DOMAIN groups_to_users)

\* the batches in the order the two loops reach them
BatchesOf(groups_to_users, size) ==
    LET groups == SortedStrings(DOMAIN groups_to_users)
    IN Flatten([i \in 1..Len(groups) |->
                  LET cs == chunks(groups_to_users[groups[i]], size)
                  IN [k \in 1..Len(cs) |-> [group |-> groups[i], chunk |-> cs[k]]]])

\* mutant: the two messages are taken for each other
IdempotenceSignalSwapped(op) == IF op = "add" THEN MsgNotMember ELSE MsgAlreadyMember

\* lines 434 and 492: the message that is not a failure
IdempotenceSignal(op) == IF op = "add" THEN MsgAlreadyMember ELSE MsgNotMember

RECURSIVE HandleMemberErrors(_, _, _)
\* lines 433-441 and 491-499: the loop over the listed errors; changed is the
\* local set added / removed, from which set.remove raises KeyError for a
\* user it does not hold
HandleMemberErrors(errors, changed, op) ==
    IF errors = <<>> THEN [changed |-> changed, failed |-> <<>>, raised |-> FALSE]
    ELSE LET msg == Head(errors)
         IN IF msg[2] = IdempotenceSignal(op)
            THEN IF msg[1] \notin changed
                 THEN [changed |-> changed, failed |-> <<>>, raised |-> TRUE]
                 ELSE HandleMemberErrors(Tail(errors), changed \ {msg[1]}, op)
            ELSE LET r == HandleMemberErrors(Tail(errors), changed, op)
                 IN [r EXCEPT !.failed = <<msg>> \o @]

\* lines 412-459 and 477-517: the try statement of one batch.  reported is
\* the set printed with Status.ADDED / Status.REMOVED (empty: nothing is
\* printed), failed the per-user messages printed with Status.FAILED,
\* batch_failed a Status.FAILED printed for the whole batch
BatchOutcome(op, chunk, answer) ==
    IF answer.exc = "ValidationError"
    THEN LET r == HandleMemberErrors(answer.failed, Range(chunk), op)
         IN [changed |-> r.changed, reported |-> {}, failed |-> r.failed,
             batch_failed |-> FALSE, raised |-> r.raised]
    ELSE IF answer.exc \in {"NotFound", "Exception"}
    THEN [changed |-> Range(chunk), reported |-> {}, failed |-> <<>>,
          batch_failed |-> TRUE, raised |-> FALSE]
    ELSE [changed |-> Range(chunk), reported |-> Range(chunk), failed |-> <<>>,
          batch_failed |-> FALSE, raised |-> FALSE]

\* the state after one batch was sent and its answer handled
BatchDone(op, request, group, answer) ==
    LET batch == Head(reconciler.todo)
        outcome == BatchOutcome(op, batch.chunk, answer)
    IN /\ ipa_groups' = answer.groups
       /\ faults' = IF answer.exc = "Exception"
                    THEN [faults EXCEPT !.errors = @ - 1] ELSE faults
       /\ Logged([op |-> request, group |-> group, users |-> batch.chunk])
       /\ batches' = Append(batches,
              [op |-> op, category |-> reconciler.category, key |-> batch.group,
               group |-> group, chunk |-> batch.chunk,
               exc |-> answer.exc, errors |-> answer.failed,
               changed |-> outcome.changed, reported |-> outcome.reported,
               failed |-> outcome.failed, batch_failed |-> outcome.batch_failed,
               raised |-> outcome.raised])
       /\ reconciler' = [reconciler EXCEPT !.todo = Tail(@),
                                           !.counter = @ + Len(batch.chunk)]
       /\ pc' = IF outcome.raised THEN "raised"
                ELSE IF Tail(reconciler.todo) = <<>> THEN "mg_return"
                ELSE pc

\* lines 394-405 and 462-470: the part before the loops
ReconcilerEntry(batch_pc) ==
    /\ IF config.skip_user_membership
       THEN pc' = "mg_return" /\ UNCHANGED reconciler
       ELSE IF reconciler.op = "add" /\ reconciler.category \notin {"members", "sponsors"}
       THEN pc' = "raised" /\ UNCHANGED reconciler
       ELSE IF Total(reconciler.groups_to_users) = 0
       THEN pc' = "mg_return" /\ UNCHANGED reconciler
       ELSE /\ reconciler' = [reconciler EXCEPT
                                 !.todo = BatchesOf(reconciler.groups_to_users, config.chunks),
                                 !.counter = 0]
            /\ pc' = batch_pc
    /\ UNCHANGED <<ipa_groups, batches, ipaVars, outsideMembers>>

add_users_to_groups ==
    /\ pc = "ag_entry"
    /\ ReconcilerEntry("ag_batch")

\* lines 409-459: one batch of add_users_to_groups
AddBatch ==
    /\ pc = "ag_batch"
    /\ LET batch == Head(reconciler.todo)
           members == reconciler.category = "members"
       IN \E answer \in GroupAddAnswers(batch.group, batch.chunk,
                                        IF members THEN "member" ELSE "membermanager") :
             BatchDone("add",
                       IF members THEN "group_add_member" ELSE "group_add_member_manager",
                       batch.group, answer)
    /\ UNCHANGED <<ipa_users, ipa_session, outsideMembers>>

remove_users_from_groups ==
    /\ pc = "rg_entry"
    /\ ReconcilerEntry("rg_batch")

\* lines 474-517: one batch of remove_users_from_groups
RemoveBatch ==
    /\ pc = "rg_batch"
    /\ LET batch == Head(reconciler.todo)
           group == config.groups.prefix \o batch.group
       IN \E answer \in GroupRemoveAnswers(group, batch.chunk) :
             BatchDone("remove", "group_remove_member", group, answer)
    /\ UNCHANGED <<ipa_users, ipa_session, outsideMembers>>

(***************************************************************************)
(* The reconciler called on a delta, once or more, on a directory that     *)
(* holds some of the groups with some of the users in them.                *)
(***************************************************************************)
Carol == <<99>>
Dave == <<100>>
Erin == <<101>>
GroupG == <<103>>
GroupH == <<104>>
PrefixF == <<102, 45>>

\* groups_to_users of the calls
DeltaPool ==
    {[g \in {} |-> <<>>],
     [g \in {GroupG} |-> <<>>],
     [g \in {GroupG} |-> <<Alice, Bob, Carol, Dave, Erin>>],
     [g \in {GroupG} |-> <<Alice, Alice>>],
     [g \in {GroupG, GroupH} |-> IF g = GroupG THEN <<Bob, Alice, Carol>> ELSE <<Carol>>]}

Group(members, managers) == [member |-> members, membermanager |-> managers]

GroupPool ==
    {[g \in {GroupG} |-> Group(ms, {})] : ms \in {{}, {Alice, Bob}, {Alice, Carol, Dave}}}
    \cup {[g \in {GroupG, GroupH, PrefixF \o GroupG} |-> Group(ms, ms \cap {Alice})] :
             ms \in {{Alice, Bob}, {Alice, Bob, Carol, Dave, Erin}}}

KnownUsersPool == {{Alice, Bob, Carol, Dave, Erin}, {Alice, Bob, Carol, Dave}}

InitMembers ==
    /\ pc = "idle"
    /\ PatternVarsIdle /\ ConflictVarsIdle /\ UpsertVarsIdle /\ PushVarsIdle
    /\ \E skip \in BOOLEAN, size \in {SmallChunk, LargeChunk}, prefix \in {<<>>, PrefixF} :
          config = [skip_user_membership |-> skip, chunks |-> size,
                    groups |-> [prefix |-> prefix]]
    /\ \E known \in KnownUsersPool : ipa_users = [u \in known |-> <<>>]
    /\ ipa_session = "valid"
    /\ faults = [expiries |-> 0, errors |-> MaxErrors]
    /\ calls = <<>>
    /\ ipa_groups \in GroupPool
    /\ \E delta \in DeltaPool :
          reconciler = [op |-> "none", category |-> "none", groups_to_users |-> delta,
                        todo |-> <<>>, counter |-> 0, rounds |-> 0]
    /\ batches = <<>>

\* the caller runs add_users_to_groups on the delta
CallAddUsersToGroups ==
    /\ pc = "idle"
    /\ reconciler.rounds < MaxRuns
    /\ \E category \in {"members", "sponsors", "owners"} :
          reconciler' = [reconciler EXCEPT !.op = "add", !.category = category,
                                           !.rounds = @ + 1]
    /\ pc' = "ag_entry"
    /\ UNCHANGED <<ipa_groups, batches, ipaVars, outsideMembers>>

\* the caller runs remove_users_from_groups on the delta
CallRemoveUsersFromGroups ==
    /\ pc = "idle"
    /\ reconciler.rounds < MaxRuns
    /\ reconciler' = [reconciler EXCEPT !.op = "remove", !.category = "members",
                                        !.rounds = @ + 1]
    /\ pc' = "rg_entry"
    /\ UNCHANGED <<ipa_groups, batches, ipaVars, outsideMembers>>

\* the reconciler returned to the caller
ReconcilerReturns ==
    /\ pc = "mg_return"
    /\ caller = "none"
    /\ pc' = "idle"
    /\ UNCHANGED <<memberVars, ipaVars, outsideMembers>>

NextMembers ==
    \/ CallAddUsersToGroups
    \/ CallRemoveUsersFromGroups
    \/ add_users_to_groups
    \/ AddBatch
    \/ remove_users_from_groups
    \/ RemoveBatch
    \/ ReconcilerReturns

SpecMembers == InitMembers /\ [][NextMembers]_vars

(***************************************************************************)
(* C9 - Membership idempotence: a user the directory reports as already a  *)
(* member (on add) or as not a member (on remove) is never in the changed  *)
(* set reported for that batch and never gets a FAILED status, for every   *)
(* batch and every combination of per-member results.                      *)
(***************************************************************************)
IsIdempotenceError(batch, error) ==
    \/ batch.op = "add" /\ error[2] = MsgAlreadyMember
    \/ batch.op = "remove" /\ error[2] = MsgNotMember

IdempotenceErrors(batch) ==
    {batch.errors[j] : j \in {k \in 1..Len(batch.errors) :
                                 IsIdempotenceError(batch, batch.errors[k])}}

C9_MembershipIdempotence ==
    \A i \in 1..Len(batches) :
        \A error \in IdempotenceErrors(batches[i]) :
            /\ error[1] \notin batches[i].reported
            /\ error \notin Range(batches[i].failed)
            /\ ~batches[i].batch_failed

C9_Witness ==
    \E i, j \in 1..Len(batches) :
        /\ batches[i].op = "add" /\ batches[j].op = "remove"
        /\ IdempotenceErrors(batches[i]) # {} /\ IdempotenceErrors(batches[j]) # {}
        /\ batches[i].failed # <<>>
        /\ ~batches[i].raised /\ ~batches[j].raised

(***************************************************************************)
(* C10 - Changed-subset reporting: after every add or remove batch the     *)
(* subset of the batch that was actually changed is reported, also when    *)
(* the directory listed idempotence errors for a part of the batch: of an  *)
(* add batch of 5 users of which 2 already belong, exactly the other 3 are *)
(* reported as added, and no failure is.                                   *)
(***************************************************************************)
C10_ChangedSubsetReported ==
    \A i \in 1..Len(batches) :
        LET batch == batches[i]
            unchanged == {error[1] : error \in IdempotenceErrors(batch)}
        IN (/\ batch.exc \in {"none", "ValidationError"}
            /\ ~batch.raised
            /\ Range(batch.errors) = IdempotenceErrors(batch)) =>
               /\ batch.reported = Range(batch.chunk) \ unchanged
               /\ batch.failed = <<>>
               /\ ~batch.batch_failed

(***************************************************************************)
(* Users._push_users: the loop over the realms and their users, then the   *)
(* four stages that send the accumulated deltas.                           *)
(***************************************************************************)
\* d[key].append(username) on a defaultdict(list)
AppendTo(d, key, username) ==
    [k \in DOMAIN d \cup {key} |->
        IF k = key THEN (IF key \in DOMAIN d THEN d[key] ELSE <<>>) \o <<username>>
        ELSE d[k]]

RECURSIVE SortedByUsername(_)
\* users.sort(key=lambda u: u["username"]): stable, ascending
SortedByUsername(users) ==
    IF users = <<>> THEN <<>>
    ELSE LET first == CHOOSE i \in 1..Len(users) :
                          \A j \in 1..Len(users) :
                              /\ ~StrLt(users[j].username, users[i].username)
                              /\ j < i => StrLt(users[i].username, users[j].username)
         IN <<users[first]>>
              \o SortedByUsername([k \in 1..(Len(users) - 1) |->
                                      IF k < first THEN users[k] ELSE users[k + 1]])

\* mutant: the list of patterns is not consulted
MatchesPatternsAlways(username, patterns) == TRUE

\* line 126: the username matches one of the patterns
MatchesPatterns(username, patterns) ==
    \E i \in 1..Len(patterns) : fnmatchcase(username, patterns[i])

\* mutant: a user is skipped only when all its conflict kinds are to be skipped
UserSkipConflictsAll(username) ==
    LET user_conflicts == IF username \in DOMAIN conflicts
                          THEN KindsOf(conflicts[username]) ELSE {}
    IN IF user_conflicts \subseteq config.skip_conflicts THEN user_conflicts ELSE {}

\* lines 129-130: user_skip_conflicts
UserSkipConflicts(username) ==
    LET user_conflicts == IF username \in DOMAIN conflicts
                          THEN KindsOf(conflicts[username]) ELSE {}
    IN config.skip_conflicts \cap user_conflicts

RECURSIVE RecordMembershipSponsorsAnyStatus(_, _, _, _)
\* mutant: a sponsor is recorded whatever the status of the role
RecordMembershipSponsorsAnyStatus(locals, roles, fas_conf, username) ==
    IF roles = <<>> THEN locals
    ELSE LET membership == Head(roles)
             groupname == fas_conf.groups.prefix \o membership.name
             sponsored(l) ==
                 IF membership.role_type \in {"administrator", "sponsor"}
                 THEN [l EXCEPT !.groups_to_sponsor_usernames =
                                    AppendTo(@, groupname, username)]
                 ELSE l
             recorded ==
                 IF membership.name \in fas_conf.groups.ignore
                    \/ membership.group_id = NoneVal
                 THEN locals
                 ELSE IF membership.role_status = "approved"
                 THEN sponsored([locals EXCEPT
                         !.groups_to_member_usernames = AppendTo(@, groupname, username)])
                 ELSE sponsored([locals EXCEPT
                         !.groups_to_unapproved_member_usernames =
                             AppendTo(@, groupname, username)])
         IN RecordMembershipSponsorsAnyStatus(recorded, Tail(roles), fas_conf, username)

RECURSIVE RecordMembership(_, _, _, _)
\* lines 147-165: the roles of one user, in the order of person["group_roles"]
RecordMembership(locals, roles, fas_conf, username) ==
    IF roles = <<>> THEN locals
    ELSE LET membership == Head(roles)
             groupname == fas_conf.groups.prefix \o membership.name
             recorded ==
                 IF membership.name \in fas_conf.groups.ignore
                    \/ membership.group_id = NoneVal
                 THEN locals
                 ELSE IF membership.role_status = "approved"
                 THEN [locals EXCEPT
                         !.groups_to_member_usernames = AppendTo(@, groupname, username),
                         !.groups_to_sponsor_usernames =
                             IF membership.role_type \in {"administrator", "sponsor"}
                             THEN AppendTo(@, groupname, username) ELSE @]
                 ELSE [locals EXCEPT
                         !.groups_to_unapproved_member_usernames =
                             AppendTo(@, groupname, username)]
         IN RecordMembership(recorded, Tail(roles), fas_conf, username)

RECURSIVE RecordAgreements(_, _, _, _)
\* lines 167-173: the agreements the user signed
RecordAgreements(locals, agreements, group_names, username) ==
    IF agreements = <<>> THEN locals
    ELSE LET agreement == Head(agreements)
             recorded ==
                 IF Range(agreement.signed_groups) \cap group_names # {}
                 THEN [locals EXCEPT
                         !.agreements_to_usernames = AppendTo(@, agreement.name, username)]
                 ELSE locals
         IN RecordAgreements(recorded, Tail(agreements), group_names, username)

\* mutant: every record that was neither added nor updated counts as skipped
CountedElseSkipped(locals, result) ==
    IF result = "ADDED" THEN [locals EXCEPT !.added = @ + 1]
    ELSE IF result = "UPDATED" THEN [locals EXCEPT !.edited = @ + 1]
    ELSE [locals EXCEPT !.skipped = @ + 1]

\* lines 177-182: the counters
Counted(locals, result) ==
    IF result = "ADDED" THEN [locals EXCEPT !.added = @ + 1]
    ELSE IF result = "UPDATED" THEN [locals EXCEPT !.edited = @ + 1]
    ELSE IF result = "SKIPPED" THEN [locals EXCEPT !.skipped = @ + 1]
    ELSE locals

NoDelta == [g \in {} |-> <<>>]

\* lines 99-106: the locals of _push_users
PushLocals ==
    [counter |-> 0, added |-> 0, edited |-> 0, skipped |-> 0,
     groups_to_member_usernames |-> NoDelta,
     groups_to_unapproved_member_usernames |-> NoDelta,
     groups_to_sponsor_usernames |-> NoDelta,
     agreements_to_usernames |-> NoDelta]

\* the record the current iteration is about
CurrentRealm == fas_users[push.fas]
CurrentPerson == CurrentRealm.users[push.idx]

\* what one iteration of the user loop did: the locals and the number of
\* directory calls before and after it
Traced(outcome, result, before, after) ==
    trace' = Append(trace,
                 [fas_name |-> CurrentRealm.fas_name, username |-> CurrentPerson.username,
                  outcome |-> outcome, status |-> result,
                  before |-> before.locals, after |-> after.locals,
                  calls_before |-> before.calls, calls_after |-> Len(calls)])

\* the loop goes on with the next user, or leaves the realm after the last
NextUser(p) ==
    /\ push' = [p EXCEPT !.idx = @ + 1]
    /\ pc' = IF push.idx = Len(CurrentRealm.users) THEN "push_realm" ELSE "push_user"

\* lines 98-111: the locals, the patterns, the conflicts to skip
PushUsersEntry ==
    /\ pc = "push_entry"
    /\ IF MakeUserPatternsRaises(users_start_at, restrict_users)
       THEN pc' = "raised" /\ UNCHANGED <<user_patterns, push>>
       ELSE /\ user_patterns' = _make_user_patterns(users_start_at, restrict_users)
            /\ push' = [locals |-> PushLocals, fas |-> 0, idx |-> 0,
                        stage |-> "users", calls |-> 0]
            /\ pc' = "push_realm"
    /\ UNCHANGED <<users_start_at, restrict_users, matched_users, conflictVars, config,
                   upsertVars, ipaVars, conflicts, trace, memberVars>>

\* lines 113-122: the next realm; its users are sorted in place
PushRealm ==
    /\ pc = "push_realm"
    /\ IF push.fas = Len(fas_users)
       THEN pc' = "push_signatures" /\ UNCHANGED <<push, fas_users>>
       ELSE LET users == fas_users[push.fas + 1].users
            IN IF users = <<>>
               THEN /\ push' = [push EXCEPT !.fas = @ + 1]
                    /\ UNCHANGED <<pc, fas_users>>
               ELSE /\ fas_users' = [fas_users EXCEPT
                                        ![push.fas + 1].users = SortedByUsername(users)]
                    /\ push' = [push EXCEPT !.fas = @ + 1, !.idx = 1]
                    /\ pc' = "push_user"
    /\ UNCHANGED <<patternVars, set_order, users_to_conflicts, baseline, config,
                   upsertVars, ipaVars, conflicts, trace, memberVars>>

\* lines 124-144: one user up to the call of migrate_user
PushUser ==
    /\ pc = "push_user"
    /\ LET username == CurrentPerson.username
           here == [locals |-> push.locals, calls |-> Len(calls)]
       IN IF ~MatchesPatterns(username, user_patterns)
          THEN /\ Traced("no_match", "none", here, push)
               /\ NextUser(push)
               /\ UNCHANGED <<person, depth, status>>
          ELSE IF UserSkipConflicts(username) # {}
          THEN LET skipped == [push EXCEPT !.locals.skipped = @ + 1]
               IN /\ Traced("conflict_skip", "none", here, skipped)
                  /\ NextUser(skipped)
                  /\ UNCHANGED <<person, depth, status>>
          ELSE /\ push' = [push EXCEPT !.locals.counter = @ + 1, !.calls = Len(calls)]
               /\ person' = CurrentPerson
               /\ depth' = 0
               /\ status' = "none"
               /\ pc' = "mu_entry"
               /\ UNCHANGED trace
    /\ UNCHANGED <<patternVars, conflictVars, config, user_args, caller, runs,
                   ipaVars, conflicts, memberVars>>

\* mutant: only a failed user is left out of the deltas
RecordsDeltasUnlessFailed(result) == result # "FAILED"

\* line 145: the memberships and signatures of the user are recorded
RecordsDeltas(result) == result # "SKIPPED"

\* lines 145-182: the deltas and the counters after migrate_user returned
PushAfterMigrate ==
    /\ pc = "mu_return"
    /\ caller = "push"
    /\ LET fas_conf == config.fas[CurrentRealm.fas_name]
           username == person.username
           group_names == {person.memberships[i].name : i \in 1..Len(person.memberships)}
           recorded ==
               IF RecordsDeltas(status)
               THEN RecordAgreements(
                        RecordMembership(push.locals, person.group_roles, fas_conf, username),
                        fas_conf.agreement, group_names, username)
               ELSE push.locals
           after == [push EXCEPT !.locals = Counted(recorded, status)]
           before == [locals |-> [push.locals EXCEPT !.counter = @ - 1],
                      calls |-> push.calls]
       IN /\ Traced("migrate_user", status, before, after)
          /\ NextUser(after)
    /\ UNCHANGED <<patternVars, conflictVars, config, upsertVars, ipaVars, conflicts,
                   memberVars>>

\* the arguments and locals of a call of the reconciler
Reconciler(op, category, groups_to_users) ==
    [op |-> op, category |-> category, groups_to_users |-> groups_to_users,
     todo |-> <<>>, counter |-> 0, rounds |-> 0]

\* lines 184-185: the signatures are recorded, add_users_to_groups is entered
PushRecordSignatures ==
    /\ pc = "push_signatures"
    /\ Logged([op |-> "record_user_signatures",
               agreements |-> push.locals.agreements_to_usernames])
    /\ push' = [push EXCEPT !.stage = "members"]
    /\ reconciler' = Reconciler("add", "members", push.locals.groups_to_member_usernames)
    /\ pc' = "ag_entry"
    /\ UNCHANGED <<patternVars, conflictVars, config, upsertVars, ipa_users, ipa_session,
                   faults, conflicts, trace, ipa_groups, batches>>

\* mutant: the removals are sent before the sponsors are added
PushNextStageRemovalsFirst ==
    /\ pc = "mg_return"
    /\ caller = "push"
    /\ IF push.stage = "members"
       THEN /\ push' = [push EXCEPT !.stage = "unapproved"]
            /\ reconciler' = Reconciler("remove", "members",
                                        push.locals.groups_to_unapproved_member_usernames)
            /\ pc' = "rg_entry"
       ELSE IF push.stage = "unapproved"
       THEN /\ push' = [push EXCEPT !.stage = "sponsors"]
            /\ reconciler' = Reconciler("add", "sponsors",
                                        push.locals.groups_to_sponsor_usernames)
            /\ pc' = "ag_entry"
       ELSE /\ push' = [push EXCEPT !.stage = "returned"]
            /\ pc' = "push_return"
            /\ UNCHANGED reconciler
    /\ UNCHANGED <<patternVars, conflictVars, config, upsertVars, ipaVars, conflicts,
                   trace, ipa_groups, batches>>

\* lines 186-193: the sponsors, the removals, the statistics returned
PushNextStage ==
    /\ pc = "mg_return"
    /\ caller = "push"
    /\ IF push.stage = "members"
       THEN /\ push' = [push EXCEPT !.stage = "sponsors"]
            /\ reconciler' = Reconciler("add", "sponsors",
                                        push.locals.groups_to_sponsor_usernames)
            /\ pc' = "ag_entry"
       ELSE IF push.stage = "sponsors"
       THEN /\ push' = [push EXCEPT !.stage = "unapproved"]
            /\ reconciler' = Reconciler("remove", "members",
                                        push.locals.groups_to_unapproved_member_usernames)
            /\ pc' = "rg_entry"
       ELSE /\ push' = [push EXCEPT !.stage = "returned"]
            /\ pc' = "push_return"
            /\ UNCHANGED reconciler
    /\ UNCHANGED <<patternVars, conflictVars, config, upsertVars, ipaVars, conflicts,
                   trace, ipa_groups, batches>>

(***************************************************************************)
(* One run of _push_users over two realms, with and without recorded       *)
(* conflicts, a resume cursor, users the directory already holds.          *)
(***************************************************************************)
GroupI == <<105>>
GroupCla == <<99, 108, 97>>
AgreementFpca == <<70>>

Role(name, role_status, role_type) ==
    [name |-> name, group_id |-> <<1>>, role_status |-> role_status, role_type |-> role_type]

RolePool ==
    {<<>>,
     <<Role(GroupG, "approved", "sponsor")>>,
     <<Role(GroupG, "unapproved", "sponsor"), Role(GroupH, "approved", "administrator"),
       Role(GroupI, "approved", "administrator"),
       [Role(GroupCla, "approved", "user") EXCEPT !.group_id = NoneVal]>>}

PushAlice(roles) ==
    [BasePerson EXCEPT !.group_roles = roles, !.memberships = <<[name |-> GroupCla]>>]

PushBob ==
    [BasePerson EXCEPT !.username = Bob, !.status = STR_inactive,
                       !.group_roles = <<Role(GroupG, "approved", "user")>>]

\* an account whose name sorts before the cursor "a1" and matches "a?"
Ada == <<97, 48>>
PushAda == [PushBob EXCEPT !.username = Ada]

\* users_start_at and restrict_users of the run, with the account that
\* precedes alice in fasA (if any)
PushCursors ==
    {[start |-> st, restrict |-> <<>>, first |-> <<PushBob>>] : st \in {<<>>, Bob}}
    \cup {[start |-> <<49>>, restrict |-> <<>>, first |-> <<>>],
          [start |-> <<97, 49>>, restrict |-> <<<<97, QuestionMark>>>>,
           first |-> <<PushAda>>]}

\* a detail record of a conflict; the coordinator only looks at the kinds
Detail == [email_address |-> AliceMail]

ConflictPool ==
    {NoConflicts,
     [name \in {Alice} |->
         [circular_email |-> <<Detail>>, email_pointing_to_other_fas |-> <<>>,
          email_address_conflicts |-> <<Detail, Detail>>]]}

FasConf(prefix) ==
    [groups |-> [ignore |-> {GroupI}, prefix |-> prefix],
     agreement |-> <<[name |-> AgreementFpca, signed_groups |-> <<GroupCla>>]>>]

PushConfig(skip_disabled, skip_user_membership, skip_conflicts) ==
    [skip_disabled |-> skip_disabled, skip_spam |-> FALSE, skip_user_add |-> FALSE,
     skip_user_membership |-> skip_user_membership, chunks |-> SmallChunk,
     groups |-> [prefix |-> <<>>], skip_conflicts |-> skip_conflicts,
     fas |-> [f \in {"fasA", "fasB"} |-> FasConf(IF f = "fasA" THEN <<>> ELSE PrefixF)]]

\* the same configuration with no group prefix for fasB either
Unprefixed(cfg) == [cfg EXCEPT !.fas.fasB = FasConf(<<>>)]

PushConfigs ==
    {PushConfig(d, FALSE, sc) : d \in BOOLEAN, sc \in {{}, {"email_address_conflicts"}}}
    \cup {PushConfig(FALSE, TRUE, {}), Unprefixed(PushConfig(FALSE, FALSE, {}))}

PushGroupPool ==
    {[g \in {GroupG, GroupH, PrefixF \o GroupG} |-> Group(ms, {})] : ms \in {{}, {Alice}}}

InitPush ==
    /\ pc = "push_entry"
    /\ user_patterns = <<>>
    /\ matched_users = NoMatched
    /\ \E cursor \in PushCursors, roles \in RolePool, in_b \in BOOLEAN :
          /\ users_start_at = cursor.start
          /\ restrict_users = cursor.restrict
          /\ fas_users =
              <<[fas_name |-> "fasA",
                 users |-> cursor.first \o <<PushAlice(roles)>>],
                [fas_name |-> "fasB",
                 users |-> IF in_b THEN <<PushAlice(<<Role(GroupG, "approved", "user")>>)>>
                           ELSE <<>>]>>
    /\ set_order = <<>>
    /\ users_to_conflicts = <<>>
    /\ baseline = <<>>
    /\ config \in PushConfigs
    /\ person = <<>>
    /\ user_args = <<>>
    /\ depth = 0
    /\ status = "none"
    /\ caller = "push"
    /\ runs = <<>>
    /\ ipa_session = "valid"
    /\ faults = [expiries |-> MaxExpiries, errors |-> MaxErrors]
    /\ calls = <<>>
    /\ conflicts \in ConflictPool
    /\ conflicts = NoConflicts => config.skip_conflicts = {}
    /\ push = <<>>
    /\ trace = <<>>
    /\ ipa_groups \in PushGroupPool
    /\ ipa_users \in {NoUsers, WithUser(NoUsers, Alice, ExistingUser(NoneVal, NoneVal))}
    /\ \A g \in DOMAIN ipa_groups : ipa_groups[g].member = DOMAIN ipa_users
    /\ reconciler = <<>>
    /\ batches = <<>>

NextPush ==
    \/ PushUsersEntry
    \/ PushRealm
    \/ PushUser
    \/ MigrateUserEntry
    \/ IpaUserAdd
    \/ IpaUserShow
    \/ IpaUserMod
    \/ IpaLogin
    \/ SessionExpires
    \/ PushAfterMigrate
    \/ PushRecordSignatures
    \/ add_users_to_groups
    \/ AddBatch
    \/ remove_users_from_groups
    \/ RemoveBatch
    \/ PushNextStage

SpecPush == InitPush /\ [][NextPush]_vars

(***************************************************************************)
(* C8 - Conflict exclusion (as claimed): for every user record, in every   *)
(* realm, whose username has a recorded conflict kind that is in           *)
(* skip_conflicts, _push_users does not call migrate_user (no call reaches *)
(* the directory), adds it to no membership or agreement delta and         *)
(* increments the skipped counter by exactly one.                          *)
(***************************************************************************)
HasSkipConflict(username) ==
    /\ username \in DOMAIN conflicts
    /\ KindsOf(conflicts[username]) \cap config.skip_conflicts # {}

Deltas(locals) ==
    <<locals.groups_to_member_usernames, locals.groups_to_sponsor_usernames,
      locals.groups_to_unapproved_member_usernames, locals.agreements_to_usernames>>

Excluded(entry) ==
    /\ entry.outcome # "migrate_user"
    /\ entry.calls_after = entry.calls_before
    /\ Deltas(entry.after) = Deltas(entry.before)
    /\ entry.after.skipped = entry.before.skipped + 1

C8_ConflictExclusionAsClaimed ==
    \A i \in 1..Len(trace) :
        HasSkipConflict(trace[i].username) => Excluded(trace[i])

(***************************************************************************)
(* C8 (amended) - for every user record, in every realm, whose username    *)
(* matches at least one of the user patterns and has a recorded conflict   *)
(* kind that is in skip_conflicts, _push_users does not call migrate_user, *)
(* adds it to no membership or agreement delta, increments the skipped     *)
(* counter by exactly one and continues with the next user.                *)
(***************************************************************************)
C8_ConflictExclusion ==
    \A i \in 1..Len(trace) :
        (/\ HasSkipConflict(trace[i].username)
         /\ MatchesPatterns(trace[i].username, user_patterns)) => Excluded(trace[i])

C8_Witness ==
    \E i, j \in 1..Len(trace) :
        /\ i < j
        /\ HasSkipConflict(trace[i].username)
        /\ trace[i].outcome = "conflict_skip"
        /\ trace[j].outcome = "migrate_user"
        /\ Cardinality(KindsOf(conflicts[trace[i].username])) > 1

(***************************************************************************)
(* C11 - Partial-failure tolerance of the membership reconciliation: for   *)
(* every sequence of directory answers to the membership calls (validation *)
(* errors with any list of per-member errors, the same member listed more  *)
(* than once, a batch holding a username twice, not-found, any other       *)
(* error) add_users_to_groups and remove_users_from_groups raise no        *)
(* exception and still send the call of every later batch of every group.  *)
(***************************************************************************)
C11_PartialFailureTolerance ==
    /\ \A i \in 1..Len(batches) : ~batches[i].raised
    /\ (pc = "mg_return" /\ ~config.skip_user_membership
        /\ Total(reconciler.groups_to_users) > 0) => reconciler.todo = <<>>

(***************************************************************************)
(* migrate_user on a directory whose session expires again after a login:  *)
(* the session may expire once more than in the runs above, so that two    *)
(* expiries can fall into one top-level call.                              *)
(***************************************************************************)
InitRetry ==
    /\ pc = "idle"
    /\ PatternVarsIdle
    /\ ConflictVarsIdle
    /\ config = [skip_disabled |-> FALSE, skip_spam |-> FALSE, skip_user_add |-> FALSE]
    /\ person \in {[BasePerson EXCEPT !.locale = l, !.timezone = tz] :
                      l \in Locales, tz \in Timezones}
    /\ user_args = <<>>
    /\ depth = 0
    /\ status = "none"
    /\ caller = "driver"
    /\ runs = <<>>
    /\ ipa_users \in TargetPool
    /\ ipa_session \in {"valid", "expired"}
    /\ faults = [expiries |-> MaxExpiries + 1, errors |-> 0]
    /\ calls = <<>>
    /\ PushVarsIdle /\ MemberVarsIdle

SpecRetry == InitRetry /\ [][NextUpsert]_vars

(***************************************************************************)
(* C12 - Bounded re-authentication retry: when the directory signals an    *)
(* expired authorization during migrate_user, the engine logs in again and *)
(* retries the whole operation once on the original record; within one     *)
(* top-level call of migrate_user there is at most one login and one       *)
(* retry, also on a directory that keeps answering Unauthorized.           *)
(***************************************************************************)
\* the logins among the directory calls since the top-level call started
LoginsOfCall ==
    IF runs = <<>> THEN 0
    ELSE LET since == IF runs[Len(runs)].status = "running"
                      THEN SubSeq(calls, runs[Len(runs)].calls + 1, Len(calls))
                      ELSE runs[Len(runs)].calls
         IN Cardinality({i \in 1..Len(since) : since[i].op = "login"})

C12_BoundedRetry == depth <= 1 /\ LoginsOfCall <= 1

(***************************************************************************)
(* C13 - Membership-delta invariant: at every point of _push_users, every  *)
(* username in the approved-member, sponsor or unapproved-member delta of  *)
(* any group, and in any agreement-signature list, belongs to a user       *)
(* record for which migrate_user was called and returned a status other    *)
(* than SKIPPED.                                                           *)
(***************************************************************************)
\* the usernames of the records migrate_user was called for and did not skip
Migrated(username) ==
    {i \in 1..Len(trace) : /\ trace[i].username = username
                           /\ trace[i].outcome = "migrate_user"
                           /\ trace[i].status # "SKIPPED"}

Occurrences(list, x) == Cardinality({i \in 1..Len(list) : list[i] = x})

\* each of the four deltas holds a username at most once per group and per
\* record that was migrated and not skipped
DeltaFromMigrated(delta) ==
    \A g \in DOMAIN delta :
        \A i \in 1..Len(delta[g]) :
            /\ Migrated(delta[g][i]) # {}
            /\ Occurrences(delta[g], delta[g][i]) <= Cardinality(Migrated(delta[g][i]))

C13_MembershipDelta ==
    push # <<>> =>
        /\ DeltaFromMigrated(push.locals.groups_to_member_usernames)
        /\ DeltaFromMigrated(push.locals.groups_to_sponsor_usernames)
        /\ DeltaFromMigrated(push.locals.groups_to_unapproved_member_usernames)
        /\ DeltaFromMigrated(push.locals.agreements_to_usernames)

C13_Witness ==
    /\ push # <<>>
    /\ push.locals.groups_to_member_usernames # NoDelta
    /\ push.locals.groups_to_unapproved_member_usernames # NoDelta
    /\ push.locals.agreements_to_usernames # NoDelta
    /\ \E i, j \in 1..Len(trace) :
          /\ trace[i].status = "SKIPPED"
          /\ trace[j].status = "FAILED"

(***************************************************************************)
(* C14 - Stage ordering in one run of _push_users: every per-user upsert   *)
(* call happens before the agreement-recording call, which happens before  *)
(* every add-member call, which happens before every add-sponsor call,     *)
(* which happens before every remove-member call; no removal is sent       *)
(* before an addition of the same run.                                     *)
(***************************************************************************)
StageOf(call) ==
    IF call.op \in {"user_add", "user_show", "user_mod", "login"} THEN 1
    ELSE IF call.op = "record_user_signatures" THEN 2
    ELSE IF call.op = "group_add_member" THEN 3
    ELSE IF call.op = "group_add_member_manager" THEN 4
    ELSE 5

C14_StageOrdering ==
    \A i, j \in 1..Len(calls) : i < j => StageOf(calls[i]) <= StageOf(calls[j])

C14_Witness ==
    /\ pc = "push_return"
    /\ \A stage \in 1..5 : \E i \in 1..Len(calls) : StageOf(calls[i]) = stage
    /\ \E i \in 1..Len(calls) : calls[i].op = "user_mod"

(***************************************************************************)
(* C15 - Per-user failures never abort the run: for every source record    *)
(* (also one with unexpected, missing or None-valued attributes) and every *)
(* directory answer other than a failed re-authentication, migrate_user    *)
(* returns one of ADDED, UPDATED, UNMODIFIED, SKIPPED, FAILED without      *)
(* raising, so that the caller goes on with the remaining users.           *)
(***************************************************************************)
C15_NeverRaises ==
    /\ pc # "raised"
    /\ \A i \in 1..Len(runs) :
          runs[i].status \in {"running", "ADDED", "UPDATED", "UNMODIFIED", "SKIPPED", "FAILED"}

(***************************************************************************)
(* C16 - Outcome classification of migrate_user once past the early exits: *)
(* ADDED exactly when the create call succeeded; an update is sent only    *)
(* after the create call answered 'user already exists', and UPDATED is    *)
(* returned exactly when that update succeeded; UNMODIFIED exactly when    *)
(* the directory answered 'no modifications to be performed'; every other  *)
(* directory error (an expired authorization apart) gives FAILED, and no   *)
(* update is sent after a create that failed for another reason.           *)
(***************************************************************************)
\* the update at position j of the calls follows a create of the same
\* attempt that answered 'user already exists'
AfterDuplicate(cs, j) ==
    LET create == IF j > 1 /\ cs[j - 1].op = "user_show" THEN j - 2 ELSE j - 1
    IN /\ create >= 1
       /\ cs[create].op = "user_add"
       /\ cs[create].answer = DuplicateEntry(cs[j].username)
       /\ create = j - 2 => cs[j - 1].answer = Ok

Classified(run) ==
    LET cs == run.calls
        last == cs[Len(cs)]
        Last(op, answer) == cs # <<>> /\ last.op = op /\ last.answer = answer
    IN /\ run.status = "ADDED" <=> Last("user_add", Ok)
       /\ run.status = "UPDATED" <=> Last("user_mod", Ok)
       /\ run.status = "UNMODIFIED" <=> (cs # <<>> /\ last.answer = EmptyModlist)
       /\ (cs # <<>> /\ last.answer = HardError) => run.status = "FAILED"
       /\ \A j \in 1..Len(cs) : cs[j].op = "user_mod" => AfterDuplicate(cs, j)

C16_OutcomeClassification ==
    \A i \in 1..Len(runs) :
        (Completed(i) /\ ~config.skip_user_add) => Classified(runs[i])

C16_Witness ==
    \E i, j \in 1..Len(runs) :
        /\ Completed(i) /\ Completed(j)
        /\ runs[i].status = "UPDATED"
        /\ \E k \in 1..Len(runs[i].calls) : runs[i].calls[k].op = "user_show"
        /\ runs[j].status = "UNMODIFIED" /\ runs[j].calls # <<>>
        /\ \E k \in 1..Len(runs[j].calls) : runs[j].calls[k].op = "login"

(***************************************************************************)
(* C17 - The early exits of migrate_user leave the target directory        *)
(* untouched: a record excluded by policy (skip_disabled with a status     *)
(* other than active, skip_spam with status spamcheck_denied) gives        *)
(* SKIPPED, skip_user_add gives UNMODIFIED, attributes left over after the *)
(* ignored and the mapped ones are removed give FAILED, and in each case   *)
(* no create, update, show or login call is made and the directory holds   *)
(* what it held before.                                                    *)
(***************************************************************************)
ExcludedByPolicy ==
    \/ config.skip_disabled /\ person.status # STR_active
    \/ config.skip_spam /\ person.status = STR_spamcheck_denied

LeftOver ==
    /\ PoppedKeys \subseteq DOMAIN person
    /\ \E key \in DOMAIN person :
          key \notin PoppedKeys /\ key \notin ignored_keys /\ ~HasIgnoredSubstring(key)

Untouched(run) == run.calls = <<>> /\ run.after = run.before

C17_EarlyExitsFrame ==
    \A i \in 1..Len(runs) :
        Completed(i) =>
            /\ ExcludedByPolicy => runs[i].status = "SKIPPED" /\ Untouched(runs[i])
            /\ (~ExcludedByPolicy /\ config.skip_user_add) =>
                  runs[i].status = "UNMODIFIED" /\ Untouched(runs[i])
            /\ (~ExcludedByPolicy /\ ~config.skip_user_add /\ LeftOver) =>
                  runs[i].status = "FAILED" /\ Untouched(runs[i])

C17_Witness ==
    /\ Len(runs) = MaxRuns
    /\ \A i \in 1..Len(runs) : Completed(i) /\ runs[i].status = "FAILED"
    /\ ~ExcludedByPolicy /\ ~config.skip_user_add /\ LeftOver
    /\ Alice \in DOMAIN ipa_users

(***************************************************************************)
(* C18 - Locale and timezone on the update path: when the create call      *)
(* answers 'user already exists', the locale (timezone) the target holds   *)
(* after the update is the incoming record's value if that is not blank,   *)
(* else the value the target already held if it was set, else the default  *)
(* en_US (UTC); a value already set in the target is never replaced by the *)
(* default or by a blank.                                                  *)
(***************************************************************************)
Blank(v) == v = NoneVal \/ Strip(v) = <<>>

ExpectedValue(incoming, stored, default) ==
    IF ~Blank(incoming) THEN Strip(incoming)
    ELSE IF ~Blank(stored) THEN stored
    ELSE default

\* the run went through the update path and the update was accepted
UpdatePathTaken(run) ==
    /\ run.status \in {"UPDATED", "UNMODIFIED"}
    /\ run.calls # <<>>
    /\ run.calls[Len(run.calls)].op = "user_mod"

C18_LocaleTimezoneNonRegression ==
    \A i \in 1..Len(runs) :
        (Completed(i) /\ UpdatePathTaken(runs[i])) =>
            LET stored == runs[i].before[person.username]
                result == runs[i].after[person.username]
            IN /\ result.faslocale =
                      ExpectedValue(person.locale, stored.faslocale, STR_en_US)
               /\ result.fastimezone =
                      ExpectedValue(person.timezone, stored.fastimezone, STR_UTC)

(***************************************************************************)
(* C19 - email_pointing_to_other_fas: for a username u in two or more      *)
(* realms and an address u@D, D the email domain of a configured realm R,  *)
(* the conflict is recorded for that address exactly when a realm other    *)
(* than R holds a record of u with that address; afterwards the address's  *)
(* realm set is empty, so the address is never counted among the distinct  *)
(* addresses of the email_address_conflicts test.                          *)
(***************************************************************************)
\* the addresses u@D of the username, D the domain of a configured realm
HomeAddresses(name) ==
    {MkEmail(name, EmailDomainOf(R)) : R \in fas_email_domains}

PointingRecorded(name, e) ==
    \E i \in 1..Len(RecordedFor(name).email_pointing_to_other_fas) :
        RecordedFor(name).email_pointing_to_other_fas[i].email_address = e

C19_EmailPointingToOtherFas ==
    pc = "found" =>
        \A name \in DuplicateUsernames :
            /\ \A R \in fas_email_domains :
                  LET e == MkEmail(name, EmailDomainOf(R))
                  IN PointingRecorded(name, e) <=> RealmsWithEmail(name, e) \ {R} # {}
            /\ RecordedFor(name).email_address_conflicts # <<>>
                  <=> Cardinality(EmailsOf(name) \ HomeAddresses(name)) > 1

C19_Witness ==
    /\ pc = "found"
    /\ RealmsHolding(Alice) = {"fasA", "fasC"}
    /\ EmailIn(Alice, "fasA") = MkEmail(Alice, DomainB)
    /\ EmailIn(Alice, "fasC") = MkEmail(Alice, DomainM)
    /\ PointingRecorded(Alice, MkEmail(Alice, DomainB))
    /\ RecordedFor(Alice).email_address_conflicts = <<>>

(***************************************************************************)
(* C20 (as claimed) - Second pattern guard: _push_users calls migrate_user *)
(* only for records whose username matches (case-sensitive glob match) a   *)
(* pattern of _make_user_patterns(startAt, restrict); a record matching no *)
(* pattern causes no directory call, no entry in a membership or agreement *)
(* delta and no change of a counter, so no out-of-range username (none     *)
(* below startAt in particular) is processed.                              *)
(***************************************************************************)
\* the username matches a pattern of _make_user_patterns(startAt, restrict)
InRange(username) ==
    \E i \in 1..Len(user_patterns) : fnmatchcase(username, user_patterns[i])

\* the iteration left the locals and the directory alone
PassedOver(t) ==
    /\ t.outcome = "no_match"
    /\ t.after = t.before
    /\ t.calls_after = t.calls_before

\* migrate_user was called for the record of the iteration
Processed(t) == t.outcome = "migrate_user"

UserCalls == {"user_add", "user_show", "user_mod"}

GuardedByPatterns ==
    /\ pc \notin {"push_entry", "raised"} =>
          user_patterns = _make_user_patterns(users_start_at, restrict_users)
    /\ \A i \in 1..Len(trace) :
          IF InRange(trace[i].username)
          THEN trace[i].outcome # "no_match"
          ELSE PassedOver(trace[i])
    /\ \A j \in 1..Len(calls) :
          calls[j].op \in UserCalls => InRange(calls[j].username)

C20_SecondPatternGuardAsClaimed ==
    /\ GuardedByPatterns
    /\ \A i \in 1..Len(trace) :
          Processed(trace[i]) => StrGe(trace[i].username, users_start_at)

(***************************************************************************)
(* C20 (amended) - the same guard; no username below startAt is processed  *)
(* when restrict is empty.  With restrict patterns the guard lets through  *)
(* every username that matches a pattern _make_user_patterns kept.         *)
(***************************************************************************)
C20_SecondPatternGuard ==
    /\ GuardedByPatterns
    /\ restrict_users = <<>> =>
          \A i \in 1..Len(trace) :
              Processed(trace[i]) => StrGe(trace[i].username, users_start_at)

C20_Witness ==
    /\ pc = "push_return"
    /\ users_start_at = Bob /\ restrict_users = <<>>
    /\ \E i, j \in 1..Len(trace) :
          /\ trace[i].username = Alice /\ PassedOver(trace[i])
          /\ trace[j].username = Bob /\ Processed(trace[j])
          /\ trace[j].calls_after > trace[j].calls_before
    /\ \E r \in 1..Len(fas_users) : \E k \in 1..Len(fas_users[r].users) :
          fas_users[r].users[k].username = Alice /\ fas_users[r].users[k].group_roles # <<>>

(***************************************************************************)
(* C21 - Add and remove address the same target group for the same delta   *)
(* key: for every group key of a delta, the group name                     *)
(* remove_users_from_groups passes to the directory is the name            *)
(* add_users_to_groups passes for that key (the realm prefix is applied    *)
(* once, when the delta is built).                                         *)
(***************************************************************************)
C21_SameTargetGroup ==
    \A i, j \in 1..Len(batches) :
        (/\ batches[i].op = "add"
         /\ batches[j].op = "remove"
         /\ batches[i].key = batches[j].key) => batches[i].group = batches[j].group

(***************************************************************************)
(* C22 - No contradictory membership delta: after a run of _push_users     *)
(* over any number of realms no (target group name, username) pair is both *)
(* in the approved-member delta and in the unapproved-removal delta, so    *)
(* the removal stage never undoes an addition of the same run.             *)
(***************************************************************************)
\* the (group, username) pairs of a delta
PairsOf(delta) ==
    UNION {{<<g, u>> : u \in Range(delta[g])} : g \in DOMAIN delta}

\* a removal sent for a user and group an earlier batch of the run added
UndoesAddition(i, j) ==
    /\ i < j
    /\ batches[i].op = "add" /\ batches[i].category = "members"
    /\ batches[j].op = "remove"
    /\ batches[i].group = batches[j].group
    /\ Range(batches[i].chunk) \cap Range(batches[j].chunk) # {}

C22_NoContradictoryDelta ==
    push # <<>> =>
        /\ PairsOf(push.locals.groups_to_member_usernames)
              \cap PairsOf(push.locals.groups_to_unapproved_member_usernames) = {}
        /\ \A i, j \in 1..Len(batches) : ~UndoesAddition(i, j)

(***************************************************************************)
(* C23 (as claimed) - Sponsors are members: at every point of              *)
(* _push_users, for every group, every username in the sponsor delta of    *)
(* the group is also in the approved-member delta of the group with the    *)
(* same multiplicity; a user with an unapproved role is never recorded as  *)
(* sponsor.                                                                *)
(***************************************************************************)
ListOf(delta, g) == IF g \in DOMAIN delta THEN delta[g] ELSE <<>>

\* the record the iteration of a trace entry was about
RecordOf(t) ==
    LET realm == fas_users[CHOOSE r \in 1..Len(fas_users) :
                               fas_users[r].fas_name = t.fas_name]
    IN realm.users[CHOOSE k \in 1..Len(realm.users) :
                       realm.users[k].username = t.username]

\* the iteration recorded no sponsor for the groups of its unapproved roles
UnapprovedNotSponsor(t) ==
    LET roles == RecordOf(t).group_roles
        prefix == config.fas[t.fas_name].groups.prefix
    IN \A k \in 1..Len(roles) :
          roles[k].role_status # "approved" =>
              ListOf(t.after.groups_to_sponsor_usernames, prefix \o roles[k].name)
                  = ListOf(t.before.groups_to_sponsor_usernames, prefix \o roles[k].name)

SponsorsWithin(Compare(_, _)) ==
    LET sponsors == push.locals.groups_to_sponsor_usernames
        members == push.locals.groups_to_member_usernames
    IN \A g \in DOMAIN sponsors : \A u \in Range(sponsors[g]) :
          Compare(Occurrences(sponsors[g], u), Occurrences(ListOf(members, g), u))

C23_SponsorsAreMembersAsClaimed ==
    push # <<>> =>
        /\ SponsorsWithin(LAMBDA s, m : s = m)
        /\ \A i \in 1..Len(trace) : UnapprovedNotSponsor(trace[i])

(***************************************************************************)
(* C23 (amended) - every username in the sponsor delta of a group is in    *)
(* the approved-member delta of the group at least as many times (a record *)
(* of another realm may add the username to the member delta alone); a     *)
(* user with an unapproved role is never recorded as sponsor.              *)
(***************************************************************************)
C23_SponsorsAreMembers ==
    push # <<>> =>
        /\ SponsorsWithin(LAMBDA s, m : 1 <= s /\ s <= m)
        /\ \A i \in 1..Len(trace) : UnapprovedNotSponsor(trace[i])

C23_Witness ==
    /\ pc = "push_return"
    /\ \E g \in DOMAIN push.locals.groups_to_sponsor_usernames :
          /\ Occurrences(push.locals.groups_to_sponsor_usernames[g], Alice) = 1
          /\ Occurrences(ListOf(push.locals.groups_to_member_usernames, g), Alice) = 1
    /\ Occurrences(ListOf(push.locals.groups_to_member_usernames, GroupG), Alice) = 1
    /\ GroupG \notin DOMAIN push.locals.groups_to_sponsor_usernames
    /\ \E i \in 1..Len(trace) :
          /\ Processed(trace[i])
          /\ trace[i].after.groups_to_unapproved_member_usernames
                # trace[i].before.groups_to_unapproved_member_usernames
          /\ \E k \in 1..Len(RecordOf(trace[i]).group_roles) :
                /\ RecordOf(trace[i]).group_roles[k].role_status = "unapproved"
                /\ RecordOf(trace[i]).group_roles[k].role_type = "sponsor"

(***************************************************************************)
(* C24 - Counter consistency of _push_users: user_counter is the number of *)
(* migrate_user calls the coordinator made (retries after a new login not  *)
(* counted); users_added and users_edited are the numbers of those calls   *)
(* that returned ADDED and UPDATED; users_skipped is the number that       *)
(* returned SKIPPED plus the number of conflict-excluded records; hence    *)
(* users_added + users_edited + users_skipped never exceeds the number of  *)
(* records that matched a pattern.                                         *)
(***************************************************************************)
\* the number of iterations of the user loop that satisfy P
Iterations(P(_)) == Cardinality({i \in 1..Len(trace) : P(trace[i])})

Returned(result) == Iterations(LAMBDA t : Processed(t) /\ t.status = result)

\* migrate_user was called and the iteration is not finished yet
CallInFlight ==
    IF caller = "push"
       /\ pc \in {"mu_entry", "mu_user_add", "mu_user_show", "mu_user_mod",
                  "mu_login", "mu_return"}
    THEN 1 ELSE 0

C24_CounterConsistency ==
    push # <<>> =>
        LET locals == push.locals
        IN /\ locals.counter = Iterations(Processed) + CallInFlight
           /\ locals.added = Returned("ADDED")
           /\ locals.edited = Returned("UPDATED")
           /\ locals.skipped = Returned("SKIPPED")
                                  + Iterations(LAMBDA t : t.outcome = "conflict_skip")
           /\ locals.added + locals.edited + locals.skipped
                 <= Iterations(LAMBDA t : t.outcome # "no_match")

C24_Witness ==
    /\ pc = "push_return"
    /\ Iterations(LAMBDA t : t.outcome = "conflict_skip") >= 1
    /\ Returned("FAILED") + Returned("ADDED") >= 1
    /\ push.locals.counter >= 1
    /\ \E j \in 1..Len(calls) : calls[j].op = "login"

====
